---- MODULE Spec2Model ----
(***************************************************************************)
(* Vocabulary learning games: GameEngine, StatisticsService,               *)
(* VocabularyService and PlayerService modelled as one state machine.      *)
(*                                                                         *)
(* JavaScript runs one job at a time.  A call from the page (a UI event)   *)
(* or the arrival of a network response is a macrotask; the continuation   *)
(* of an `await` on an already settled promise is a microtask and runs     *)
(* before the next macrotask.  The model keeps the microtask queue `mq`    *)
(* and one FIFO of pending remote-store operations per service instance    *)
(* (`net`); macrotask actions are enabled only when `mq` is empty.         *)
(***************************************************************************)
EXTENDS Integers, Sequences, FiniteSets, TLC

\* ------------------------------------------------------------------ bounds
MaxSessions == 2        \* session record ids the remote store hands out
MaxNet == 3             \* pending remote operations per service instance
MaxAnswers == 5         \* answers recorded in one statistics session
MaxScore == 3           \* answers the engine counts before a reset
MaxNow == 1500          \* last clock value, in milliseconds
MaxFetches == 2         \* vocabulary fetches started on the service
MaxOverrun == 1         \* nextItem calls past the end of the sequence
MaxDirect == 1          \* sessions a page starts on the service directly
MaxCalls == 3           \* calls a page makes on its PlayerService directly
MaxItems == 40          \* items of the sequence whose pass has ended

\* ------------------------------------------------------ program constants
DefaultSaveFrequency == 5
SmallSaveFrequency == 2     \* a frequency a page sets with setSaveFrequency
TickMs == 500

\* ------------------------------------------------------------------ values
Inst == {1, 2}                      \* service instances (one per tab)
Absent == -1                        \* a numeric field that is not set
NULL == "null"                      \* a string field that is null
Undefined == 0                      \* items[i] read outside the array

\* Vocabulary items.  Items 1 and 3 carry the same `english` key, item 2
\* has neither `english` nor `word`.
English(i) == CASE i = 1 -> "cat" [] i = 3 -> "cat" [] OTHER -> ""
Word(i) == ""

\* Lesson tags of the items.  AllLessons is the sentinel for all lessons
\* combined.
AllLessons == "all"
Lessons == {"1"}
Lesson(i) == IF i \in {1, 2} THEN "1" ELSE "2"

\* Vocabularies the remote store and the local file can deliver.
FetchedVocabularies == {<<1, 2, 3>>}
LocalVocabularies == {<<2, 1>>, <<>>}

EngineGameId == "g1"
GameIds == {EngineGameId, "g2"}      \* gameId arguments of startSession

VARIABLES
    \* GameEngine
    vocabulary, items, currentIndex, correctCount, wrongCount, skippedCount,
    wrongItems, isRetryMode, hasAnswered, currentLesson, lessonManager,
    \* observations of the engine's callers
    lastCall, ret, threw, answersThisItem, normalPass, gameEnd, callbacks,
    \* StatisticsService, one instance per tab
    currentSession, startTime, sessionId, saveFrequency, answersSinceLastSave,
    fbAvailable, endReturn,
    \* PlayerService and the browser's localStorage
    playerId, storedName,
    \* the calls a page made on its PlayerService, in order
    playerCalls,
    \* the board page: its tiles, the tile whose quiz was opened last, and
    \* the quiz dialog with the timers that follow an answer
    tiles, currentTileIndex, quizModal,
    \* remote store and scheduling
    sessions, players, nextKey, net, mq, now, writeFailed,
    \* VocabularyService
    cache, lastSource, onStatusChange, fetches, remoteReads, statusLog, connectable,
    \* whether clearCache() was called after the latest fetch started
    cleared

engineVars == <<vocabulary, items, currentIndex, correctCount, wrongCount,
                skippedCount, wrongItems, isRetryMode, hasAnswered, currentLesson,
                lessonManager>>
observerVars == <<lastCall, ret, threw, answersThisItem, normalPass, gameEnd, callbacks>>
statsVars == <<currentSession, startTime, sessionId, saveFrequency,
               answersSinceLastSave, fbAvailable, endReturn>>
playerVars == <<playerId, storedName, playerCalls>>
boardVars == <<tiles, currentTileIndex, quizModal>>
storeVars == <<sessions, players, nextKey, net, mq, now, writeFailed>>
vocabVars == <<cache, lastSource, onStatusChange, fetches, remoteReads, statusLog, connectable, cleared>>
vars == <<engineVars, observerVars, statsVars, playerVars, boardVars, storeVars, vocabVars>>

\* ----------------------------------------------------------------- helpers
Range(s) == {s[i] : i \in 1..Len(s)}

Merge(rec, data) ==
    [f \in DOMAIN rec |-> IF f \in DOMAIN data THEN data[f] ELSE rec[f]]

\* Math.round(x) for x = num / den, num >= 0, den > 0: round half up.
RoundDiv(num, den) == (2 * num + den) \div (2 * den)

\* The pairs part <= whole <= 60 for which the double (part / whole) * 100
\* lies below the half-way value it stands for: 23 / 40 * 100 is
\* 57.49999999999999 in IEEE-754 double arithmetic.
HalfLost == {<<23, 40>>}

\* Math.round((part / whole) * 100) in double arithmetic, whole > 0.
Percent(part, whole) ==
    IF <<part, whole>> \in HalfLost
    THEN RoundDiv(100 * part, whole) - 1
    ELSE RoundDiv(100 * part, whole)

Count(seq, x) == Cardinality({i \in 1..Len(seq) : seq[i] = x})

IsPermutation(a, b) ==
    /\ Len(a) = Len(b)
    /\ \A x \in Range(a) \cup Range(b) : Count(a, x) = Count(b, x)

\* ------------------------------------------------------------ PlayerService
PromptAnswers == {NULL, "", "  ", "Dana "}
NoAnswer == NULL
PlayerNames == {"dana", "undefined"}

Truthy(str) == str \notin {NULL, ""}

\* name.toLowerCase().trim()
Normalize(str) == CASE str = "Dana " -> "dana" [] str = "  " -> "" [] OTHER -> str

\* An identity that falls back to a default name when none is given.
getPlayerIdDefaults(w, s, ans) ==
    IF Truthy(w.playerId[s]) THEN [name |-> w.playerId[s], w |-> w]
    ELSE LET stored == w.storedName
             typed == IF Truthy(ans) THEN Normalize(ans) ELSE ans
             name == IF Truthy(stored) THEN stored
                     ELSE IF Truthy(ans) /\ typed # "" THEN typed ELSE "undefined"
         IN [name |-> name, w |-> [w EXCEPT !.playerId[s] = name]]

\* getPlayerId(): the cached name, else the stored name, else one prompt.
\* `ans` is what the user answers should the prompt be shown.
getPlayerId(w, s, ans) ==
    IF Truthy(w.playerId[s]) THEN [name |-> w.playerId[s], w |-> w]
    ELSE LET stored == w.storedName
             typed == IF Truthy(ans) THEN Normalize(ans) ELSE ans
             name == IF Truthy(stored) THEN stored
                     ELSE IF Truthy(ans) /\ typed = "" THEN NULL ELSE typed
             saved == IF ~Truthy(stored) /\ Truthy(ans) /\ typed # "" THEN typed ELSE stored
         IN [name |-> name,
             w |-> [w EXCEPT !.playerId[s] = name, !.storedName = saved]]

\* -------------------------------------------------------- StatisticsService
NoSession ==
    [active |-> FALSE, playerId |-> NULL, gameId |-> NULL, totalWords |-> 0,
     lesson |-> NULL, difficulty |-> NULL, isRetryMode |-> FALSE, source |-> NULL,
     correctCount |-> 0, wrongCount |-> 0, skippedCount |-> 0]

NoRecord ==
    [exists |-> FALSE, playerId |-> NULL, gameId |-> NULL, status |-> NULL,
     startTime |-> Absent, totalWords |-> Absent,
     correctCount |-> Absent, wrongCount |-> Absent, skippedCount |-> Absent,
     lesson |-> NULL, difficulty |-> NULL, isRetryMode |-> FALSE, source |-> NULL,
     wordsCompleted |-> Absent, score |-> Absent, endTime |-> Absent,
     durationSeconds |-> Absent]

NoPlayer ==
    [exists |-> FALSE, createdAt |-> Absent, lastSeen |-> Absent,
     totalSessions |-> 0, totalPlayTime |-> 0, gamesPlayed |-> <<>>]

NoData == [none |-> TRUE]

\* gameEnd holds the results onGameEnd was called with by the latest step
\* of the engine; NoGameEnd when that step did not call it.
NoGameEnd ==
    [fired |-> FALSE, correctCount |-> 0, wrongCount |-> 0, skippedCount |-> 0,
     total |-> 0, percentage |-> 0, wrongItems |-> <<>>, isRetryMode |-> FALSE]

\* callbacks holds the calls the latest step of the engine made to
\* onGameStart / onRetryStart (`start`) and to onDisplayItem, with the
\* arguments of the latter.
NoCallbacks ==
    [start |-> "none", onDisplayItem |-> FALSE, item |-> Undefined, index |-> 0, total |-> 0]

\* displayCurrentItem() and the start callback before it, for a cursor
\* inside the sequence: onDisplayItem(item, index, total).
\* A display that hands out the index counted from one.
DisplayedFromOne(start, its, index) ==
    [start |-> start, onDisplayItem |-> index < Len(its),
     item |-> IF index < Len(its) THEN its[index + 1] ELSE Undefined,
     index |-> IF index < Len(its) THEN index + 1 ELSE 0,
     total |-> IF index < Len(its) THEN Len(its) ELSE 0]

\* callbacks after displayCurrentItem() on the sequence `its` at `index`,
\* `start` being the start callback the same call invoked before.
Displayed(start, its, index) ==
    [start |-> start, onDisplayItem |-> index < Len(its),
     item |-> IF index < Len(its) THEN its[index + 1] ELSE Undefined,
     index |-> IF index < Len(its) THEN index ELSE 0,
     total |-> IF index < Len(its) THEN Len(its) ELSE 0]

\* endReturn[s] is what the endSession call of instance s that settled last
\* resolved to (id Absent for null); NoReturn before any call and while a
\* call on an active session has not settled.
NoReturn == [settled |-> FALSE, id |-> Absent]
Returned(id) == [settled |-> TRUE, id |-> id]

\* A continuation waiting in the microtask queue or behind a remote operation.
\* What a continuation carries of the showFinalScreen() call that awaits
\* the endSession call it belongs to: none, or the pass that call ended.
NotAwaited == [awaited |-> FALSE]
AwaitedFor(pass) == [awaited |-> TRUE, pass |-> pass]

Cont(k, s, sid, data, eng) == [k |-> k, s |-> s, sid |-> sid, data |-> data, eng |-> eng]

\* The part of the state that synchronous service code reads and writes.
World ==
    [currentSession |-> currentSession, startTime |-> startTime,
     sessionId |-> sessionId, answersSinceLastSave |-> answersSinceLastSave,
     playerId |-> playerId, storedName |-> storedName, mq |-> mq,
     endReturn |-> endReturn,
     tiles |-> tiles, currentTileIndex |-> currentTileIndex, quizModal |-> quizModal]

SetWorld(w) ==
    /\ currentSession' = w.currentSession
    /\ startTime' = w.startTime
    /\ sessionId' = w.sessionId
    /\ answersSinceLastSave' = w.answersSinceLastSave
    /\ playerId' = w.playerId
    /\ storedName' = w.storedName
    /\ playerCalls' = playerCalls
    /\ mq' = w.mq
    /\ endReturn' = w.endReturn
    /\ tiles' = w.tiles
    /\ currentTileIndex' = w.currentTileIndex
    /\ quizModal' = w.quizModal

\* getPlayerId() shows the prompt when no name is cached and none is stored.
Prompts(w, s) == ~Truthy(w.playerId[s]) /\ ~Truthy(w.storedName)

PlayerCall(op, s, prompted, name) ==
    [op |-> op, s |-> s, prompted |-> prompted, name |-> name]

\* A page calls getPlayerId(); the user answers ans if the prompt is shown.
callGetPlayerId(s, ans) ==
    /\ mq = <<>>
    /\ Len(playerCalls) < MaxCalls
    /\ LET p == getPlayerId(World, s, ans)
       IN /\ playerId' = p.w.playerId
          /\ storedName' = p.w.storedName
          /\ playerCalls' = Append(playerCalls,
                 PlayerCall("getPlayerId", s, Prompts(World, s), p.name))
    /\ UNCHANGED <<engineVars, observerVars, statsVars, boardVars, storeVars, vocabVars>>

\* getPlayerIdSilent(): the cached name, else the stored name, never a prompt.
getPlayerIdSilent(s) ==
    /\ mq = <<>>
    /\ Len(playerCalls) < MaxCalls
    /\ LET name == IF Truthy(playerId[s]) THEN playerId[s] ELSE storedName
       IN /\ playerId' = IF ~Truthy(playerId[s]) /\ Truthy(name)
                            THEN [playerId EXCEPT ![s] = name] ELSE playerId
          /\ playerCalls' = Append(playerCalls,
                 PlayerCall("getPlayerIdSilent", s, FALSE, name))
    /\ UNCHANGED <<engineVars, observerVars, statsVars, boardVars, storeVars, vocabVars, storedName>>

\* clearPlayerId()
clearPlayerId(s) ==
    /\ mq = <<>>
    /\ Len(playerCalls) < MaxCalls
    /\ storedName' = NULL
    /\ playerId' = [playerId EXCEPT ![s] = NULL]
    /\ playerCalls' = Append(playerCalls, PlayerCall("clearPlayerId", s, FALSE, NULL))
    /\ UNCHANGED <<engineVars, observerVars, statsVars, boardVars, storeVars, vocabVars>>

\* setPlayerId(name)
setPlayerId(s, name) ==
    /\ mq = <<>>
    /\ Len(playerCalls) < MaxCalls
    /\ IF Truthy(name) /\ Normalize(name) # ""
       THEN /\ storedName' = Normalize(name)
            /\ playerId' = [playerId EXCEPT ![s] = Normalize(name)]
       ELSE UNCHANGED <<playerId, storedName>>
    /\ playerCalls' = Append(playerCalls, PlayerCall("setPlayerId", s, FALSE, NULL))
    /\ UNCHANGED <<engineVars, observerVars, statsVars, boardVars, storeVars, vocabVars>>

\* setSaveFrequency(frequency)
setSaveFrequency(s, frequency) ==
    /\ mq = <<>>
    /\ saveFrequency' = [saveFrequency EXCEPT ![s] = IF frequency > 1 THEN frequency ELSE 1]
    /\ UNCHANGED <<engineVars, observerVars, playerVars, boardVars, storeVars, vocabVars,
                   currentSession, startTime, sessionId, answersSinceLastSave, fbAvailable,
                   endReturn>>

\* _calculateScore(correct, total): Math.round((correct / total) * 100)
calculateScore(correct, total) ==
    IF total = 0 THEN 0 ELSE Percent(correct, total)

\* startSession(gameId, options), up to its first await.
startSession(w, s, gameId, options, ans) ==
    LET p == getPlayerId(w, s, ans)
        w1 == p.w
    IN IF ~Truthy(p.name) THEN w1
       ELSE [w1 EXCEPT
               !.startTime[s] = now,
               !.answersSinceLastSave[s] = 0,
               !.currentSession[s] =
                   [active |-> TRUE, playerId |-> p.name, gameId |-> gameId,
                    totalWords |-> options.totalWords,
                    lesson |-> options.lesson, difficulty |-> options.difficulty,
                    isRetryMode |-> options.isRetryMode,
                    source |-> IF Truthy(options.source) THEN options.source ELSE "unknown",
                    correctCount |-> 0, wrongCount |-> 0, skippedCount |-> 0],
               !.mq = Append(w1.mq, Cont("create1", s, Absent, NoData, NotAwaited))]

\* recordAnswer(result), up to its first await.
recordAnswer(w, s, result) ==
    IF ~w.currentSession[s].active \/ w.sessionId[s] = Absent THEN w
    ELSE LET cs == w.currentSession[s]
             cs1 == CASE result = "correct" -> [cs EXCEPT !.correctCount = @ + 1]
                      [] result = "wrong" -> [cs EXCEPT !.wrongCount = @ + 1]
                      [] result = "skipped" -> [cs EXCEPT !.skippedCount = @ + 1]
                      [] OTHER -> cs
             n == w.answersSinceLastSave[s] + 1
         IN [w EXCEPT
               !.currentSession[s] = cs1,
               !.answersSinceLastSave[s] = n,
               !.mq = IF n >= saveFrequency[s]
                      THEN Append(w.mq, Cont("update1", s, Absent, NoData, NotAwaited))
                      ELSE w.mq]

\* endSession(results), up to its first await.  `eng` tells whether
\* showFinalScreen awaits the call, and for which pass.  Omitted result fields are Absent.  The
\* continuation keeps what the call's closure holds: finalData, the full
\* session record, the results and the live counters it read.
endSession(w, s, results, eng) ==
    IF ~w.currentSession[s].active
    THEN [w EXCEPT !.mq = IF eng.awaited THEN Append(w.mq, Cont("ended", s, Absent, NoData, eng))
                          ELSE w.mq,
                   !.endReturn[s] = Returned(Absent)]
    ELSE LET cs == w.currentSession[s]
             endTime == now
             correct == IF results.correctCount # Absent THEN results.correctCount ELSE cs.correctCount
             wrong == IF results.wrongCount # Absent THEN results.wrongCount ELSE cs.wrongCount
             skipped == IF results.skippedCount # Absent THEN results.skippedCount ELSE cs.skippedCount
             wordsCompleted == IF results.wordsCompleted \notin {Absent, 0}
                               THEN results.wordsCompleted
                               ELSE correct + wrong + skipped
             begun == IF w.startTime[s] = Absent THEN 0 ELSE w.startTime[s]
             finalData ==
                 [status |-> "completed", wordsCompleted |-> wordsCompleted,
                  correctCount |-> correct, wrongCount |-> wrong, skippedCount |-> skipped,
                  score |-> calculateScore(correct, wordsCompleted),
                  endTime |-> endTime,
                  durationSeconds |-> RoundDiv(endTime - begun, 1000)]
             session ==
                 Merge([NoRecord EXCEPT
                          !.exists = TRUE, !.playerId = cs.playerId, !.gameId = cs.gameId,
                          !.totalWords = cs.totalWords, !.lesson = cs.lesson,
                          !.difficulty = cs.difficulty, !.isRetryMode = cs.isRetryMode,
                          !.source = cs.source, !.startTime = w.startTime[s]],
                       finalData)
             call == [final |-> finalData, session |-> session, results |-> results,
                      live |-> [correctCount |-> cs.correctCount,
                                wrongCount |-> cs.wrongCount,
                                skippedCount |-> cs.skippedCount]]
         IN IF w.sessionId[s] # Absent
            THEN [w EXCEPT !.mq = Append(w.mq, Cont("finalize1", s, w.sessionId[s], call, eng)),
                           !.endReturn[s] = NoReturn]
            ELSE [w EXCEPT !.mq = Append(w.mq, Cont("save1", s, Absent, call, eng)),
                           !.endReturn[s] = NoReturn]


\* ------------------------------------------- remote operations in flight
Op(op, id, player, data, k) == [op |-> op, id |-> id, player |-> player, data |-> data, k |-> k]
NoCont(s) == Cont("none", s, Absent, NoData, NotAwaited)

\* The record a write addresses: `statistics/sessions/null` is record 0.
RecordOf(sid) == IF sid = Absent THEN 0 ELSE sid

Send(s, o) == net' = [net EXCEPT ![s] = Append(@, o)]

\* A return that loses the session id.
EndTailReturnsNull(c, rest) ==
    /\ currentSession' = [currentSession EXCEPT ![c.s] = NoSession]
    /\ startTime' = [startTime EXCEPT ![c.s] = Absent]
    /\ sessionId' = [sessionId EXCEPT ![c.s] = Absent]
    /\ answersSinceLastSave' = [answersSinceLastSave EXCEPT ![c.s] = 0]
    /\ endReturn' = [endReturn EXCEPT ![c.s] = Returned(Absent)]
    /\ mq' = IF c.eng.awaited THEN Append(rest, Cont("ended", c.s, c.sid, NoData, c.eng))
                               ELSE rest

\* The reset at the end of endSession (lines 274-280); showFinalScreen,
\* when it awaits the call, resumes one microtask later.
EndTail(c, rest) ==
    /\ currentSession' = [currentSession EXCEPT ![c.s] = NoSession]
    /\ startTime' = [startTime EXCEPT ![c.s] = Absent]
    /\ sessionId' = [sessionId EXCEPT ![c.s] = Absent]
    /\ answersSinceLastSave' = [answersSinceLastSave EXCEPT ![c.s] = 0]
    /\ endReturn' = [endReturn EXCEPT ![c.s] = Returned(c.sid)]
    /\ mq' = IF c.eng.awaited THEN Append(rest, Cont("ended", c.s, c.sid, NoData, c.eng))
                               ELSE rest

\* _createLiveSession after `await this._init()`
CreateAfterInit ==
    LET c == Head(mq)
        rest == Tail(mq)
    IN
    /\ mq # <<>>
    /\ c.k = "create1"
    /\ mq' = IF fbAvailable[c.s] THEN Append(rest, [c EXCEPT !.k = "create2"]) ELSE rest
    /\ UNCHANGED <<engineVars, observerVars, statsVars, playerVars, boardVars, vocabVars,
                   sessions, players, nextKey, net, now, writeFailed>>

\* A creation that stores the record as completed.
CreateLiveSessionCompleted ==
    LET c == Head(mq)
        rest == Tail(mq)
    IN
    /\ mq # <<>>
    /\ c.k = "create2"
    /\ nextKey <= MaxSessions
    /\ sessionId' = [sessionId EXCEPT ![c.s] = nextKey]
    /\ nextKey' = nextKey + 1
    /\ LET cs == currentSession[c.s]
           sessionData ==
               [NoRecord EXCEPT
                  !.exists = TRUE, !.playerId = cs.playerId, !.gameId = cs.gameId,
                  !.status = "completed", !.startTime = startTime[c.s],
                  !.totalWords = cs.totalWords,
                  !.correctCount = 0, !.wrongCount = 0, !.skippedCount = 0,
                  !.lesson = cs.lesson, !.difficulty = cs.difficulty,
                  !.isRetryMode = cs.isRetryMode, !.source = cs.source]
       IN IF cs.active
          THEN Send(c.s, Op("set", nextKey, NULL, sessionData, NoCont(c.s)))
          ELSE UNCHANGED net
    /\ mq' = rest
    /\ UNCHANGED <<engineVars, observerVars, playerVars, boardVars, vocabVars, currentSession,
                   startTime, saveFrequency, answersSinceLastSave, fbAvailable, endReturn,
                   sessions, players, now, writeFailed>>

\* _createLiveSession after `await import(...)`: push, assign the id, set.
CreateLiveSession ==
    LET c == Head(mq)
        rest == Tail(mq)
    IN
    /\ mq # <<>>
    /\ c.k = "create2"
    /\ nextKey <= MaxSessions
    /\ sessionId' = [sessionId EXCEPT ![c.s] = nextKey]
    /\ nextKey' = nextKey + 1
    /\ LET cs == currentSession[c.s]
           sessionData ==
               [NoRecord EXCEPT
                  !.exists = TRUE, !.playerId = cs.playerId, !.gameId = cs.gameId,
                  !.status = "in_progress", !.startTime = startTime[c.s],
                  !.totalWords = cs.totalWords,
                  !.correctCount = 0, !.wrongCount = 0, !.skippedCount = 0,
                  !.lesson = cs.lesson, !.difficulty = cs.difficulty,
                  !.isRetryMode = cs.isRetryMode, !.source = cs.source]
       IN IF cs.active
          THEN Send(c.s, Op("set", nextKey, NULL, sessionData, NoCont(c.s)))
          ELSE UNCHANGED net
    /\ mq' = rest
    /\ UNCHANGED <<engineVars, observerVars, playerVars, boardVars, vocabVars, currentSession,
                   startTime, saveFrequency, answersSinceLastSave, fbAvailable, endReturn,
                   sessions, players, now, writeFailed>>

\* _updateLiveSession after `await this._init()`
UpdateAfterInit ==
    LET c == Head(mq)
        rest == Tail(mq)
    IN
    /\ mq # <<>>
    /\ c.k = "update1"
    /\ mq' = Append(rest, [c EXCEPT !.k = IF fbAvailable[c.s] THEN "update2" ELSE "resetSave"])
    /\ UNCHANGED <<engineVars, observerVars, statsVars, playerVars, boardVars, vocabVars,
                   sessions, players, nextKey, net, now, writeFailed>>

\* An update that keeps addressing the first record it ever addressed.
updateLiveSessionFirstRef ==
    LET c == Head(mq)
        rest == Tail(mq)
    IN
    /\ mq # <<>>
    /\ c.k = "update2"
    /\ LET cs == currentSession[c.s]
           counts == [correctCount |-> cs.correctCount, wrongCount |-> cs.wrongCount,
                      skippedCount |-> cs.skippedCount]
           id == IF sessions[1].exists THEN 1 ELSE RecordOf(sessionId[c.s])
       IN IF cs.active
          THEN /\ Send(c.s, Op("update", id, NULL, counts, [c EXCEPT !.k = "resetSave"]))
               /\ mq' = rest
          ELSE /\ mq' = Append(rest, [c EXCEPT !.k = "resetSave"])
               /\ UNCHANGED net
    /\ UNCHANGED <<engineVars, observerVars, statsVars, playerVars, boardVars, vocabVars,
                   sessions, players, nextKey, now, writeFailed>>

\* _updateLiveSession after `await import(...)`: update with the counters
\* the session holds now.
updateLiveSession ==
    LET c == Head(mq)
        rest == Tail(mq)
    IN
    /\ mq # <<>>
    /\ c.k = "update2"
    /\ LET cs == currentSession[c.s]
           counts == [correctCount |-> cs.correctCount, wrongCount |-> cs.wrongCount,
                      skippedCount |-> cs.skippedCount]
       IN IF cs.active
          THEN /\ Send(c.s, Op("update", RecordOf(sessionId[c.s]), NULL, counts,
                               [c EXCEPT !.k = "resetSave"]))
               /\ mq' = rest
          ELSE /\ mq' = Append(rest, [c EXCEPT !.k = "resetSave"])
               /\ UNCHANGED net
    /\ UNCHANGED <<engineVars, observerVars, statsVars, playerVars, boardVars, vocabVars,
                   sessions, players, nextKey, now, writeFailed>>

\* recordAnswer after `await this._updateLiveSession()` (line 146)
ResetAnswersSinceLastSave ==
    LET c == Head(mq)
        rest == Tail(mq)
    IN
    /\ mq # <<>>
    /\ c.k = "resetSave"
    /\ answersSinceLastSave' = [answersSinceLastSave EXCEPT ![c.s] = 0]
    /\ mq' = rest
    /\ UNCHANGED <<engineVars, observerVars, playerVars, boardVars, vocabVars, currentSession,
                   startTime, sessionId, saveFrequency, fbAvailable, endReturn,
                   sessions, players, nextKey, net, now, writeFailed>>

\* _finalizeLiveSession after `await this._init()`
FinalizeAfterInit ==
    LET c == Head(mq)
        rest == Tail(mq)
    IN
    /\ mq # <<>>
    /\ c.k = "finalize1"
    /\ mq' = Append(rest, [c EXCEPT !.k = IF fbAvailable[c.s] THEN "finalize2" ELSE "afterFinal"])
    /\ UNCHANGED <<engineVars, observerVars, statsVars, playerVars, boardVars, vocabVars,
                   sessions, players, nextKey, net, now, writeFailed>>

\* _finalizeLiveSession after `await import(...)`: update the record that
\* this.sessionId names now.
finalizeLiveSession ==
    LET c == Head(mq)
        rest == Tail(mq)
    IN
    /\ mq # <<>>
    /\ c.k = "finalize2"
    /\ Send(c.s, Op("update", RecordOf(sessionId[c.s]), NULL, c.data.final,
                    [c EXCEPT !.k = "afterFinal"]))
    /\ mq' = rest
    /\ UNCHANGED <<engineVars, observerVars, statsVars, playerVars, boardVars, vocabVars,
                   sessions, players, nextKey, now, writeFailed>>

\* A fallback save that stores the final fields only.
saveSessionFinalOnly ==
    LET c == Head(mq)
        rest == Tail(mq)
    IN
    /\ mq # <<>>
    /\ c.k = "save1"
    /\ IF fbAvailable[c.s]
       THEN /\ nextKey <= MaxSessions
            /\ nextKey' = nextKey + 1
            /\ Send(c.s, Op("set", nextKey, NULL,
                            [Merge(NoRecord, c.data.final) EXCEPT !.exists = TRUE],
                            Cont("afterFinal", c.s, nextKey, c.data, c.eng)))
            /\ mq' = rest
       ELSE /\ mq' = Append(rest, Cont("afterFinal", c.s, Absent, c.data, c.eng))
            /\ UNCHANGED <<nextKey, net>>
    /\ UNCHANGED <<engineVars, observerVars, statsVars, playerVars, boardVars, vocabVars,
                   sessions, players, now, writeFailed>>

\* _saveSession after `await this._init()`: push and set the full record.
saveSession ==
    LET c == Head(mq)
        rest == Tail(mq)
    IN
    /\ mq # <<>>
    /\ c.k = "save1"
    /\ IF fbAvailable[c.s]
       THEN /\ nextKey <= MaxSessions
            /\ nextKey' = nextKey + 1
            /\ Send(c.s, Op("set", nextKey, NULL, c.data.session,
                            Cont("afterFinal", c.s, nextKey, c.data, c.eng)))
            /\ mq' = rest
       ELSE /\ mq' = Append(rest, Cont("afterFinal", c.s, Absent, c.data, c.eng))
            /\ UNCHANGED <<nextKey, net>>
    /\ UNCHANGED <<engineVars, observerVars, statsVars, playerVars, boardVars, vocabVars,
                   sessions, players, now, writeFailed>>

\* endSession after the record was finalized or saved (lines 262-280):
\* with an id, start _updatePlayerStats on the session held now.
AfterFinal ==
    LET c == Head(mq)
        rest == Tail(mq)
    IN
    /\ mq # <<>>
    /\ c.k = "afterFinal"
    /\ IF c.sid # Absent
       THEN LET cs == currentSession[c.s]
                session == [playerId |-> IF cs.active THEN cs.playerId ELSE "undefined",
                            gameId |-> IF cs.active THEN cs.gameId ELSE "undefined",
                            durationSeconds |-> c.data.final.durationSeconds,
                            timestamp |-> now]
            IN /\ mq' = Append(rest, Cont("stats1", c.s, c.sid, session, c.eng))
               /\ UNCHANGED statsVars
       ELSE /\ EndTail(c, rest)
            /\ UNCHANGED <<saveFrequency, fbAvailable>>
    /\ UNCHANGED <<engineVars, observerVars, playerVars, boardVars, vocabVars,
                   sessions, players, nextKey, net, now, writeFailed>>

\* _updatePlayerStats after `await this._init()`: read the aggregate.
updatePlayerStatsRead ==
    LET c == Head(mq)
        rest == Tail(mq)
    IN
    /\ mq # <<>>
    /\ c.k = "stats1"
    /\ IF fbAvailable[c.s]
       THEN /\ Send(c.s, Op("get", 0, c.data.playerId, NoData, [c EXCEPT !.k = "stats2"]))
            /\ mq' = rest
            /\ UNCHANGED statsVars
       ELSE /\ EndTail(c, rest)
            /\ UNCHANGED <<saveFrequency, fbAvailable, net>>
    /\ UNCHANGED <<engineVars, observerVars, playerVars, boardVars, vocabVars,
                   sessions, players, nextKey, now, writeFailed>>

\* An aggregate write that counts no session.
updatePlayerStatsWriteUncounted ==
    LET c == Head(mq)
        rest == Tail(mq)
    IN
    /\ mq # <<>>
    /\ c.k = "stats2"
    /\ Send(c.s, Op("setPlayer", 0, c.data.session.playerId,
                    [c.data.existing EXCEPT !.exists = TRUE],
                    [c EXCEPT !.k = "endTail"]))
    /\ mq' = rest
    /\ UNCHANGED <<engineVars, observerVars, statsVars, playerVars, boardVars, vocabVars,
                   sessions, players, nextKey, now, writeFailed>>

\* An aggregate write like updatePlayerStatsWrite that lists the game of
\* every session, once per session.
updatePlayerStatsWriteDuplicates ==
    LET c == Head(mq)
        rest == Tail(mq)
    IN
    /\ mq # <<>>
    /\ c.k = "stats2"
    /\ LET existing == c.data.existing
           session == c.data.session
           updated == [exists |-> TRUE,
                       createdAt |-> IF existing.createdAt # Absent
                                     THEN existing.createdAt ELSE session.timestamp,
                       lastSeen |-> session.timestamp,
                       totalSessions |-> existing.totalSessions + 1,
                       totalPlayTime |-> existing.totalPlayTime + session.durationSeconds,
                       gamesPlayed |-> Append(existing.gamesPlayed, session.gameId)]
       IN Send(c.s, Op("setPlayer", 0, session.playerId, updated,
                       [c EXCEPT !.k = "endTail"]))
    /\ mq' = rest
    /\ UNCHANGED <<engineVars, observerVars, statsVars, playerVars, boardVars, vocabVars,
                   sessions, players, nextKey, now, writeFailed>>

\* _updatePlayerStats after `await get(playerRef)`: write the aggregate
\* computed from the snapshot (lines 337-352).
updatePlayerStatsWrite ==
    LET c == Head(mq)
        rest == Tail(mq)
    IN
    /\ mq # <<>>
    /\ c.k = "stats2"
    /\ LET existing == c.data.existing
           session == c.data.session
           gamesPlayed == IF session.gameId \in Range(existing.gamesPlayed)
                          THEN existing.gamesPlayed
                          ELSE Append(existing.gamesPlayed, session.gameId)
           updated == [exists |-> TRUE,
                       createdAt |-> IF existing.createdAt # Absent
                                     THEN existing.createdAt ELSE session.timestamp,
                       lastSeen |-> session.timestamp,
                       totalSessions |-> existing.totalSessions + 1,
                       totalPlayTime |-> existing.totalPlayTime + session.durationSeconds,
                       gamesPlayed |-> gamesPlayed]
       IN Send(c.s, Op("setPlayer", 0, session.playerId, updated,
                       [c EXCEPT !.k = "endTail"]))
    /\ mq' = rest
    /\ UNCHANGED <<engineVars, observerVars, statsVars, playerVars, boardVars, vocabVars,
                   sessions, players, nextKey, now, writeFailed>>

\* endSession after `await this._updatePlayerStats(...)`
EndSessionReset ==
    LET c == Head(mq)
        rest == Tail(mq)
    IN
    /\ mq # <<>>
    /\ c.k = "endTail"
    /\ EndTail(c, rest)
    /\ UNCHANGED <<engineVars, observerVars, playerVars, boardVars, vocabVars, saveFrequency,
                   fbAvailable, sessions, players, nextKey, net, now, writeFailed>>

\* The remote store performs the oldest pending operation of instance s and
\* its promise settles; `ok` is whether the operation succeeded.
Deliver(s, ok) ==
    /\ mq = <<>>
    /\ net[s] # <<>>
    /\ LET o == Head(net[s])
       IN /\ net' = [net EXCEPT ![s] = Tail(@)]
          /\ sessions' =
               IF ~ok THEN sessions
               ELSE CASE o.op = "set" -> [sessions EXCEPT ![o.id] = o.data]
                      [] o.op = "update" ->
                           [sessions EXCEPT ![o.id] = [Merge(@, o.data) EXCEPT !.exists = TRUE]]
                      [] OTHER -> sessions
          /\ players' =
               IF ok /\ o.op = "setPlayer"
               THEN [players EXCEPT ![o.player] = o.data] ELSE players
          /\ mq' =
               CASE o.op = "get" ->
                      IF ok THEN <<[o.k EXCEPT !.data = [existing |-> players[o.player],
                                                        session |-> o.k.data]]>>
                      ELSE <<[o.k EXCEPT !.k = "endTail", !.data = NoData]>>
                 [] o.op = "set" /\ o.k.k = "afterFinal" /\ ~ok ->
                      <<[o.k EXCEPT !.sid = Absent]>>
                 [] o.k.k = "none" -> <<>>
                 [] OTHER -> <<o.k>>
          /\ writeFailed' = (writeFailed \/ (~ok /\ o.op # "get"))
    /\ UNCHANGED <<engineVars, observerVars, statsVars, playerVars, boardVars, vocabVars,
                   nextKey, now>>

\* _init() fails while initializeApp throws and succeeds once it no longer
\* does.
StoreBecomesAvailable(s) ==
    /\ mq = <<>>
    /\ ~fbAvailable[s]
    /\ fbAvailable' = [fbAvailable EXCEPT ![s] = TRUE]
    /\ UNCHANGED <<engineVars, observerVars, playerVars, boardVars, storeVars, vocabVars,
                   currentSession, startTime, sessionId, saveFrequency,
                   answersSinceLastSave, endReturn>>

\* The clock advances.
Tick ==
    /\ mq = <<>>
    /\ now + TickMs <= MaxNow
    /\ now' = now + TickMs
    /\ UNCHANGED <<engineVars, observerVars, statsVars, playerVars, boardVars, vocabVars,
                   sessions, players, nextKey, net, mq, writeFailed>>


\* -------------------------------------- calls of the service by a page
PushRoom(n) == nextKey + n <= MaxSessions + 1
\* Whether a startSession call would reach the remote store.
Tracks(w, s, ans) == fbAvailable[s] /\ Truthy(getPlayerId(w, s, ans).name)
\* Whether an endSession call would reach the remote store.
Ends(s) == fbAvailable[s] /\ currentSession[s].active
\* The store has a key and the instance a slot left for an endSession call.
EndRoom(s) ==
    Ends(s) => /\ sessionId[s] = Absent => PushRoom(1)
               /\ Len(net[s]) < MaxNet

\* The options and results a page passes.
SessionOptions ==
    {[totalWords |-> 3, lesson |-> NULL, difficulty |-> NULL, isRetryMode |-> FALSE,
      source |-> NULL]}
NoResults ==
    [correctCount |-> Absent, wrongCount |-> Absent, skippedCount |-> Absent,
     wordsCompleted |-> Absent]
EndResults ==
    {NoResults,
     [NoResults EXCEPT !.correctCount = 2, !.wrongCount = 1, !.skippedCount = 0],
     [NoResults EXCEPT !.correctCount = 23, !.wrongCount = 17, !.skippedCount = 0],
     [NoResults EXCEPT !.correctCount = 1, !.wordsCompleted = 0]}

\* Whether an endSession call of instance s waits for the remote store.
Ending(s) ==
    \E i \in 1..Len(net[s]) : net[s][i].k.k \in {"afterFinal", "stats2", "endTail"}

\* statisticsService.startSession(gameId, options), not awaited
callStartSession(s, gameId, options, ans) ==
    /\ mq = <<>>
    /\ Tracks(World, s, ans) => PushRoom(1) /\ Len(net[s]) < MaxNet
    /\ SetWorld(startSession(World, s, gameId, options, ans))
    /\ UNCHANGED <<engineVars, observerVars, vocabVars, saveFrequency, fbAvailable,
                   sessions, players, nextKey, net, now, writeFailed>>

\* statisticsService.recordAnswer(result), not awaited
callRecordAnswer(s, result) ==
    /\ mq = <<>>
    /\ Len(net[s]) < MaxNet
    /\ currentSession[s].correctCount + currentSession[s].wrongCount
          + currentSession[s].skippedCount < MaxAnswers
    /\ SetWorld(recordAnswer(World, s, result))
    /\ UNCHANGED <<engineVars, observerVars, vocabVars, saveFrequency, fbAvailable,
                   sessions, players, nextKey, net, now, writeFailed>>

\* statisticsService.endSession(results), not awaited
callEndSession(s, results) ==
    /\ mq = <<>>
    /\ EndRoom(s)
    /\ SetWorld(endSession(World, s, results, NotAwaited))
    /\ UNCHANGED <<engineVars, observerVars, vocabVars, saveFrequency, fbAvailable,
                   sessions, players, nextKey, net, now, writeFailed>>

\* --------------------------------------------------------- VocabularyService
Paths == {"vocabulary/english", "vocabulary/hebrew"}
NoVocabulary == [isNull |-> TRUE, vocabulary |-> <<>>]
Vocabulary(v) == [isNull |-> FALSE, vocabulary |-> v]

\* What a remote read can settle with: a snapshot holding data, a snapshot
\* holding nothing (val() is null), or a rejection.
Outcome(kind, v) == [kind |-> kind, vocabulary |-> v]
Documents(vs) == {Outcome("data", v) : v \in vs}
RemoteOutcomes == {Outcome("empty", <<>>), Outcome("error", <<>>)}
                      \cup Documents(FetchedVocabularies)
\* What the local file fetch can settle with: a network error, a non-OK
\* response, an unparsable body, the document `null`, or a document.
JsonOutcomes == {Outcome(k, <<>>) : k \in {"networkError", "notOk", "parseError", "nullDoc"}}
                    \cup Documents(LocalVocabularies)

\* One call of getEnglishVocabulary / getHebrewVocabulary.  pc is where the
\* call stands ("race", "json", "done"); remote is the state of its remote
\* read promise ("none", "pending", "settled", or "late" once it settled
\* after the timeout); tier1 and tier2 record how the remote and the local
\* tier ended for the call, remoteData and localData what they delivered.
\* afterClear tells whether the call is the first since a clearCache().
Fetch(path, pc, remote, tier1) ==
    [path |-> path, pc |-> pc, remote |-> remote, result |-> NoVocabulary,
     source |-> NULL, tier1 |-> tier1, tier2 |-> "none",
     remoteData |-> NoVocabulary, localData |-> NoVocabulary, afterClear |-> cleared]

\* A notification that calls the callback twice.
notifyStatusTwice(callback, isOnline, source) ==
    /\ lastSource' = source
    /\ statusLog' = IF callback
                    THEN statusLog \o <<[isOnline |-> isOnline, source |-> source],
                                        [isOnline |-> isOnline, source |-> source]>>
                    ELSE statusLog

\* _notifyStatus(isOnline, source)
notifyStatus(callback, isOnline, source) ==
    /\ lastSource' = source
    /\ statusLog' = IF callback
                    THEN Append(statusLog, [isOnline |-> isOnline, source |-> source])
                    ELSE statusLog

\* A return that reports every result as the remote store's.
ReturnAsRemote(f, result, source) ==
    fetches' = [fetches EXCEPT ![f] =
        [@ EXCEPT !.pc = "done", !.result = result, !.source = "firebase",
                  !.tier2 = IF result.isNull THEN "miss" ELSE "hit",
                  !.localData = result]]

\* The fetch f returns what the local tier delivered to its caller.
Return(f, result, source) ==
    fetches' = [fetches EXCEPT ![f] =
        [@ EXCEPT !.pc = "done", !.result = result, !.source = source,
                  !.tier2 = IF result.isNull THEN "miss" ELSE "hit",
                  !.localData = result]]

\* setStatusCallback(callback)
setStatusCallback(registered) ==
    /\ mq = <<>>
    /\ onStatusChange' = registered
    /\ UNCHANGED <<engineVars, observerVars, statsVars, playerVars, boardVars, storeVars,
                   cache, lastSource, fetches, remoteReads, statusLog, connectable, cleared>>

\* getEnglishVocabulary / getHebrewVocabulary up to the first await that
\* waits for the network: init(), the cache, then the remote read raced
\* against the timeout, or the local file when init() failed.
getVocabulary(path) ==
    /\ Len(fetches) < MaxFetches
    /\ IF ~connectable
       THEN /\ fetches' = Append(fetches,
                   [Fetch(path, "json", "none", "unavailable") EXCEPT !.tier2 = "pending"])
            /\ UNCHANGED <<lastSource, statusLog, remoteReads>>
       ELSE IF ~cache[path].isNull
       THEN /\ notifyStatus(onStatusChange, TRUE, "firebase")
            /\ fetches' = Append(fetches,
                   [Fetch(path, "done", "none", "cached") EXCEPT
                       !.result = cache[path], !.source = "firebase",
                       !.remoteData = cache[path]])
            /\ UNCHANGED remoteReads
       ELSE /\ fetches' = Append(fetches, Fetch(path, "race", "pending", "pending"))
            /\ remoteReads' = remoteReads + 1
            /\ UNCHANGED <<lastSource, statusLog>>
    /\ cleared' = FALSE
    /\ UNCHANGED <<engineVars, observerVars, statsVars, playerVars, boardVars, storeVars,
                   cache, onStatusChange, connectable>>

getEnglishVocabulary ==
    /\ mq = <<>>
    /\ getVocabulary("vocabulary/english")

getHebrewVocabulary ==
    /\ mq = <<>>
    /\ getVocabulary("vocabulary/hebrew")

\* A remote read whose late response is stored in the cache all the same.
RemoteSettlesLateCaches(f, outcome) ==
    /\ mq = <<>>
    /\ f \in 1..Len(fetches)
    /\ fetches[f].remote = "pending"
    /\ cache' = IF outcome.kind = "data"
                THEN [cache EXCEPT ![fetches[f].path] = Vocabulary(outcome.vocabulary)]
                ELSE cache
    /\ IF fetches[f].pc = "race"
       THEN IF outcome.kind = "data"
            THEN /\ notifyStatus(onStatusChange, TRUE, "firebase")
                 /\ fetches' = [fetches EXCEPT ![f] =
                        [@ EXCEPT !.pc = "done", !.remote = "settled", !.tier1 = "hit",
                                  !.remoteData = Vocabulary(outcome.vocabulary),
                                  !.result = Vocabulary(outcome.vocabulary),
                                  !.source = "firebase"]]
            ELSE /\ fetches' = [fetches EXCEPT ![f] =
                        [@ EXCEPT !.pc = "json", !.remote = "settled", !.tier1 = "miss",
                                  !.tier2 = "pending"]]
                 /\ UNCHANGED <<lastSource, statusLog>>
       ELSE /\ fetches' = [fetches EXCEPT ![f] = [@ EXCEPT !.remote = "late"]]
            /\ UNCHANGED <<lastSource, statusLog>>
    /\ UNCHANGED <<engineVars, observerVars, statsVars, playerVars, boardVars, storeVars,
                   onStatusChange, remoteReads, connectable, cleared>>

\* The remote read of fetch f settles.  While the race is undecided its
\* outcome decides _tryFirebase (lines 147-161); after the timeout won, the
\* settled promise has no reader left.
RemoteSettles(f, outcome) ==
    /\ mq = <<>>
    /\ f \in 1..Len(fetches)
    /\ fetches[f].remote = "pending"
    /\ IF fetches[f].pc = "race"
       THEN IF outcome.kind = "data"
            THEN /\ cache' = [cache EXCEPT ![fetches[f].path] = Vocabulary(outcome.vocabulary)]
                 /\ notifyStatus(onStatusChange, TRUE, "firebase")
                 /\ fetches' = [fetches EXCEPT ![f] =
                        [@ EXCEPT !.pc = "done", !.remote = "settled", !.tier1 = "hit",
                                  !.remoteData = Vocabulary(outcome.vocabulary),
                                  !.result = Vocabulary(outcome.vocabulary),
                                  !.source = "firebase"]]
            ELSE /\ fetches' = [fetches EXCEPT ![f] =
                        [@ EXCEPT !.pc = "json", !.remote = "settled", !.tier1 = "miss",
                                  !.tier2 = "pending"]]
                 /\ UNCHANGED <<cache, lastSource, statusLog>>
       ELSE /\ fetches' = [fetches EXCEPT ![f] = [@ EXCEPT !.remote = "late"]]
            /\ UNCHANGED <<cache, lastSource, statusLog>>
    /\ UNCHANGED <<engineVars, observerVars, statsVars, playerVars, boardVars, storeVars,
                   onStatusChange, remoteReads, connectable, cleared>>

\* The timeout of fetch f fires before its remote read settled: the race
\* rejects, _tryFirebase returns null and the local file is fetched.
Timeout(f) ==
    /\ mq = <<>>
    /\ f \in 1..Len(fetches)
    /\ fetches[f].pc = "race"
    /\ fetches' = [fetches EXCEPT ![f] =
           [@ EXCEPT !.pc = "json", !.tier1 = "timeout", !.tier2 = "pending"]]
    /\ UNCHANGED <<engineVars, observerVars, statsVars, playerVars, boardVars, storeVars,
                   cache, lastSource, onStatusChange, remoteReads, statusLog, connectable, cleared>>

\* A local tier without its catch: a failed fetch or an unparsable body
\* rejects the call.
JsonSettlesPropagates(f, outcome) ==
    /\ mq = <<>>
    /\ f \in 1..Len(fetches)
    /\ fetches[f].pc = "json"
    /\ IF outcome.kind = "data"
       THEN /\ notifyStatus(onStatusChange, FALSE, "json")
            /\ Return(f, Vocabulary(outcome.vocabulary), "json")
       ELSE IF outcome.kind \in {"networkError", "parseError"}
       THEN /\ fetches' = [fetches EXCEPT ![f] = [@ EXCEPT !.pc = "rejected"]]
            /\ UNCHANGED <<lastSource, statusLog>>
       ELSE /\ notifyStatus(onStatusChange, FALSE, "embedded")
            /\ Return(f, NoVocabulary, "embedded")
    /\ UNCHANGED <<engineVars, observerVars, statsVars, playerVars, boardVars, storeVars, cache,
                   onStatusChange, remoteReads, connectable, cleared>>

\* The local file fetch of fetch f settles (_tryJsonFallback and lines 61-69).
JsonSettles(f, outcome) ==
    /\ mq = <<>>
    /\ f \in 1..Len(fetches)
    /\ fetches[f].pc = "json"
    /\ IF outcome.kind = "data"
       THEN /\ notifyStatus(onStatusChange, FALSE, "json")
            /\ Return(f, Vocabulary(outcome.vocabulary), "json")
       ELSE /\ notifyStatus(onStatusChange, FALSE, "embedded")
            /\ Return(f, NoVocabulary, "embedded")
    /\ UNCHANGED <<engineVars, observerVars, statsVars, playerVars, boardVars, storeVars, cache,
                   onStatusChange, remoteReads, connectable, cleared>>

\* clearCache()
clearCache ==
    /\ mq = <<>>
    /\ cache' = [path \in Paths |-> NoVocabulary]
    /\ cleared' = TRUE
    /\ UNCHANGED <<engineVars, observerVars, statsVars, playerVars, boardVars, storeVars,
                   lastSource, onStatusChange, fetches, remoteReads, statusLog, connectable>>


\* ------------------------------------------------------------- LessonManager
\* getCurrentVocabulary() for the selected lesson over the flat list.
RECURSIVE ItemsForLesson(_, _)
ItemsForLesson(lesson, all) ==
    IF all = <<>> THEN <<>>
    ELSE LET rest == ItemsForLesson(lesson, Tail(all))
         IN IF lesson = AllLessons \/ Lesson(Head(all)) = lesson
            THEN <<Head(all)>> \o rest ELSE rest

\* ---------------------------------------------------------------- GameEngine
\* An exchange that loses a[i].
SwapLosesOne(a, i, j) == [a EXCEPT ![i] = a[j]]

\* [newArray[i], newArray[j]] = [newArray[j], newArray[i]]
Swap(a, i, j) == [a EXCEPT ![i] = a[j], ![j] = a[i]]

\* shuffleArray(array): the arrays the loop can return, one for each way
\* Math.random() picks j in [0, i] for i = length-1 down to 1 (1-based here).
RECURSIVE FisherYates(_, _)
FisherYates(a, i) ==
    IF i < 2 THEN {a}
    ELSE UNION {FisherYates(Swap(a, i, j), i - 1) : j \in 1..i}

shuffleArray(array) == FisherYates(array, Len(array))

\* items[index], undefined outside the array
ItemAt(its, index) == IF index + 1 \in 1..Len(its) THEN its[index + 1] ELSE Undefined

\* isSameItem(a, b) raises a TypeError when it reads a property of undefined.
isSameItemThrows(a, b) ==
    \/ a = Undefined
    \/ b = Undefined /\ (English(a) # "" \/ Word(a) # "")

isSameItem(a, b) ==
    IF English(a) # "" /\ English(b) # "" THEN English(a) = English(b)
    ELSE IF Word(a) # "" /\ Word(b) # "" THEN Word(a) = Word(b)
    ELSE a = b

\* wrongItems.find(w => isSameItem(w, item)): "found", "missing" or "throws"
RECURSIVE Find(_, _)
Find(ws, item) ==
    IF ws = <<>> THEN "missing"
    ELSE IF isSameItemThrows(Head(ws), item) THEN "throws"
    ELSE IF isSameItem(Head(ws), item) THEN "found"
    ELSE Find(Tail(ws), item)

Results == [correctCount |-> correctCount, wrongCount |-> wrongCount,
            skippedCount |-> skippedCount, wordsCompleted |-> Absent]

\* The pass showFinalScreen() is called for: the counters, the length of the
\* sequence, the wrong items and the retry flag the engine holds then.
Pass(results, total, wrong, retry) ==
    [correctCount |-> results.correctCount, wrongCount |-> results.wrongCount,
     skippedCount |-> results.skippedCount, total |-> total,
     wrongItems |-> wrong, isRetryMode |-> retry]

CurrentPass == Pass(Results, Len(items), wrongItems, isRetryMode)

\* showFinalScreen() up to `await statisticsService.endSession(...)`
showFinalScreen(w, pass) ==
    endSession(w, 1, [correctCount |-> pass.correctCount, wrongCount |-> pass.wrongCount,
                      skippedCount |-> pass.skippedCount, wordsCompleted |-> Absent],
               AwaitedFor(pass))

\* A final screen that divides by the total whatever it is: 0 / 0 is NaN.
ShowFinalScreenResumeUnguarded ==
    LET c == Head(mq)
        rest == Tail(mq)
    IN
    /\ mq # <<>>
    /\ c.k = "ended"
    /\ LET total == Len(items)
           percentage == IF total > 0 THEN Percent(correctCount, total) ELSE Absent
       IN gameEnd' = [fired |-> TRUE, correctCount |-> correctCount,
                      wrongCount |-> wrongCount, skippedCount |-> skippedCount,
                      total |-> total, percentage |-> percentage,
                      wrongItems |-> wrongItems, isRetryMode |-> isRetryMode]
    /\ mq' = rest
    /\ UNCHANGED <<engineVars, statsVars, playerVars, boardVars, vocabVars, lastCall, ret, threw,
                   answersThisItem, normalPass, callbacks,
                   sessions, players, nextKey, net, now, writeFailed>>

\* showFinalScreen() after the await: the percentage and onGameEnd.
ShowFinalScreenResume ==
    LET c == Head(mq)
        rest == Tail(mq)
    IN
    /\ mq # <<>>
    /\ c.k = "ended"
    /\ LET total == Len(items)
           percentage == IF total > 0 THEN Percent(correctCount, total) ELSE 0
       IN gameEnd' = [fired |-> TRUE, correctCount |-> correctCount,
                      wrongCount |-> wrongCount, skippedCount |-> skippedCount,
                      total |-> total, percentage |-> percentage,
                      wrongItems |-> wrongItems, isRetryMode |-> isRetryMode]
    /\ mq' = rest
    /\ UNCHANGED <<engineVars, statsVars, playerVars, boardVars, vocabVars, lastCall, ret, threw,
                   answersThisItem, normalPass, callbacks,
                   sessions, players, nextKey, net, now, writeFailed>>

\* The onGameStart callback of the board page, initBoard(items): one
\* unanswered tile per item.  The pages without a board keep none.
initBoard(w, its) ==
    IF w.quizModal = NULL THEN w
    ELSE [w EXCEPT !.tiles = [i \in 1..Len(its) |-> "unanswered"]]

\* startGame() over the vocabulary `voc`, with the counters `results`, the
\* wrong items `wrong` and the retry flag the engine holds when it is called: shuffle, cursor 0,
\* startSession, displayCurrentItem.
StartGame(w, voc, lesson, retry, results, wrong, source, ans) ==
    /\ Tracks(w, 1, ans) => PushRoom(IF voc = <<>> THEN 2 ELSE 1) /\ Len(net[1]) < MaxNet
    /\ \E shuffled \in shuffleArray(voc) :
         /\ items' = shuffled
         /\ currentIndex' = 0
         /\ hasAnswered' = FALSE
         /\ callbacks' = Displayed("onGameStart", shuffled, 0)
         /\ LET options == [totalWords |-> Len(shuffled), lesson |-> lesson,
                            difficulty |-> NULL, isRetryMode |-> retry,
                            source |-> source]
                w1 == initBoard(startSession(w, 1, EngineGameId, options, ans), shuffled)
            IN SetWorld(IF Len(shuffled) = 0
                        THEN showFinalScreen(w1, Pass(results, 0, wrong, retry))
                        ELSE w1)
    /\ answersThisItem' = 0
    /\ normalPass' = (~retry /\ correctCount' + wrongCount' + skippedCount' = 0)
    /\ threw' = FALSE
    /\ gameEnd' = NoGameEnd
    /\ ret' = FALSE
    /\ UNCHANGED <<saveFrequency, fbAvailable, sessions, players, nextKey, net, now,
                   writeFailed>>

ZeroResults == [correctCount |-> 0, wrongCount |-> 0, skippedCount |-> 0,
                wordsCompleted |-> Absent]

\* A reset that forgets the wrong counter.
resetScoresKeepsWrong == correctCount' = 0 /\ wrongCount' = wrongCount /\ skippedCount' = 0

\* resetScores()
resetScores == correctCount' = 0 /\ wrongCount' = 0 /\ skippedCount' = 0

\* What `await vocabularyService.getEnglishVocabulary()` can hand to
\* loadVocabulary, with the source the service reports for it.
LoadResults ==
    {[data |-> Vocabulary(<<1, 2, 3>>), source |-> "firebase"],
     [data |-> Vocabulary(<<>>), source |-> "json"],
     [data |-> NoVocabulary, source |-> "embedded"]}

\* The page calls the engine once its game is loaded.
Loaded == lastCall # "new"

\* init() and loadVocabulary(): register the status callback, take the
\* fetched vocabulary `load.data`, then startGame().
loadVocabulary(load, ans) ==
    /\ mq = <<>>
    /\ ~Loaded
    /\ onStatusChange' = TRUE
    /\ notifyStatus(TRUE, load.source = "firebase", load.source)
    /\ UNCHANGED <<correctCount, wrongCount, skippedCount>>
    /\ LET loaded == ~load.data.isNull /\ Len(load.data.vocabulary) > 0
           voc == IF loaded THEN load.data.vocabulary ELSE <<>>
           lesson == IF loaded /\ lessonManager.present THEN AllLessons ELSE currentLesson
       IN /\ vocabulary' = voc
          /\ lessonManager' = IF loaded /\ lessonManager.present
                              THEN [lessonManager EXCEPT !.all = voc] ELSE lessonManager
          /\ currentLesson' = lesson
          /\ StartGame(World, voc, lesson, isRetryMode, Results, wrongItems, load.source, ans)
    /\ lastCall' = "loadVocabulary"
    /\ UNCHANGED <<wrongItems, isRetryMode, cache, fetches, remoteReads, connectable, cleared>>

\* onLessonChange(lesson), called by the lesson selector after it changed
\* the lesson manager's selection; loadVocabulary creates the selector only
\* with a lesson manager and a vocabulary (lines 84-92).
onLessonChange(lesson, ans) ==
    /\ mq = <<>>
    /\ Loaded
    /\ lessonManager.present /\ lessonManager.all # <<>>
    /\ resetScores
    /\ LET voc == IF lessonManager.present
                  THEN ItemsForLesson(lesson, lessonManager.all) ELSE vocabulary
       IN /\ vocabulary' = voc
          /\ StartGame(World, voc, lesson, isRetryMode, ZeroResults, wrongItems, lastSource, ans)
    /\ currentLesson' = lesson
    /\ lastCall' = "onLessonChange"
    /\ UNCHANGED <<wrongItems, isRetryMode, lessonManager, vocabVars>>

\* nextItem(): advance the cursor, then displayCurrentItem().
nextItem ==
    /\ mq = <<>>
    /\ Loaded
    /\ currentIndex < Len(items) + MaxOverrun
    /\ currentIndex' = currentIndex + 1
    /\ IF currentIndex + 1 >= Len(items)
       THEN /\ EndRoom(1)
            /\ SetWorld(showFinalScreen(World, CurrentPass))
            /\ UNCHANGED hasAnswered
       ELSE /\ hasAnswered' = FALSE
            /\ UNCHANGED <<currentSession, startTime, sessionId, answersSinceLastSave,
                           playerId, storedName, playerCalls, boardVars, mq, endReturn>>
    /\ callbacks' = Displayed("none", items, currentIndex + 1)
    /\ lastCall' = "nextItem"
    /\ answersThisItem' = 0
    /\ normalPass' = (normalPass /\ hasAnswered /\ currentIndex < Len(items))
    /\ threw' = FALSE
    /\ ret' = FALSE
    /\ gameEnd' = NoGameEnd
    /\ UNCHANGED <<vocabulary, items, correctCount, wrongCount, skippedCount, wrongItems,
                   isRetryMode, currentLesson, lessonManager,
                   saveFrequency, fbAvailable, vocabVars,
                   sessions, players, nextKey, net, now, writeFailed>>

\* A guard that lets an answered item be answered again.
RejectedCountsAgain(call) ==
    /\ hasAnswered
    /\ correctCount + wrongCount + skippedCount < MaxScore
    /\ ret' = TRUE
    /\ lastCall' = call
    /\ threw' = FALSE
    /\ gameEnd' = NoGameEnd
    /\ callbacks' = NoCallbacks
    /\ correctCount' = correctCount + 1
    /\ answersThisItem' = answersThisItem + 1
    /\ UNCHANGED <<vocabulary, items, currentIndex, wrongCount, skippedCount, wrongItems,
                   isRetryMode, hasAnswered, currentLesson, lessonManager,
                   statsVars, playerVars, storeVars, vocabVars, normalPass>>

\* What every rejected record call does: return false.
Rejected(call) ==
    /\ hasAnswered
    /\ ret' = FALSE
    /\ lastCall' = call
    /\ threw' = FALSE
    /\ gameEnd' = NoGameEnd
    /\ callbacks' = NoCallbacks
    /\ UNCHANGED <<engineVars, statsVars, playerVars, storeVars, vocabVars,
                   answersThisItem, normalPass>>

\* What every accepted record call leaves alone.
AcceptedFrame ==
    /\ Ends(1) => Len(net[1]) < MaxNet
    /\ correctCount + wrongCount + skippedCount < MaxScore
    /\ hasAnswered' = TRUE
    /\ answersThisItem' = answersThisItem + 1
    /\ normalPass' = (normalPass /\ currentIndex < Len(items))
    /\ gameEnd' = NoGameEnd
    /\ callbacks' = NoCallbacks
    /\ UNCHANGED <<vocabulary, items, currentIndex, isRetryMode, currentLesson,
                   lessonManager, saveFrequency, fbAvailable, vocabVars,
                   sessions, players, nextKey, net, now, writeFailed>>

\* recordCorrect()
recordCorrect ==
    /\ mq = <<>>
    /\ Loaded
    /\ \/ Rejected("recordCorrect") /\ UNCHANGED boardVars
       \/ /\ ~hasAnswered
          /\ AcceptedFrame
          /\ correctCount' = correctCount + 1
          /\ SetWorld(recordAnswer(World, 1, "correct"))
          /\ ret' = TRUE
          /\ threw' = FALSE
          /\ lastCall' = "recordCorrect"
          /\ UNCHANGED <<wrongCount, skippedCount, wrongItems>>

\* The wrong-item bookkeeping shared by recordWrong() and recordSkipped():
\* push the current item unless find() reports it, return true unless
\* isSameItem raised.
TrackWrongItem ==
    LET item == ItemAt(items, currentIndex)
        found == Find(wrongItems, item)
    IN /\ wrongItems' = IF found = "missing" THEN Append(wrongItems, item) ELSE wrongItems
       /\ threw' = (found = "throws")
       /\ ret' = (found # "throws")

\* recordWrong()
recordWrong ==
    /\ mq = <<>>
    /\ Loaded
    /\ \/ Rejected("recordWrong") /\ UNCHANGED boardVars
       \/ /\ ~hasAnswered
          /\ AcceptedFrame
          /\ wrongCount' = wrongCount + 1
          /\ SetWorld(recordAnswer(World, 1, "wrong"))
          /\ TrackWrongItem
          /\ lastCall' = "recordWrong"
          /\ UNCHANGED <<correctCount, skippedCount>>

\* A skip that is not counted.
recordSkippedUncounted ==
    /\ mq = <<>>
    /\ Loaded
    /\ \/ Rejected("recordSkipped") /\ UNCHANGED boardVars
       \/ /\ ~hasAnswered
          /\ AcceptedFrame
          /\ SetWorld(recordAnswer(World, 1, "skipped"))
          /\ TrackWrongItem
          /\ lastCall' = "recordSkipped"
          /\ UNCHANGED <<correctCount, wrongCount, skippedCount>>

\* recordSkipped()
recordSkipped ==
    /\ mq = <<>>
    /\ Loaded
    /\ \/ Rejected("recordSkipped") /\ UNCHANGED boardVars
       \/ /\ ~hasAnswered
          /\ AcceptedFrame
          /\ skippedCount' = skippedCount + 1
          /\ SetWorld(recordAnswer(World, 1, "skipped"))
          /\ TrackWrongItem
          /\ lastCall' = "recordSkipped"
          /\ UNCHANGED <<correctCount, wrongCount>>

\* A restart that reshuffles the active sequence instead of the vocabulary.
restartGameOverItems(ans) ==
    /\ mq = <<>>
    /\ Loaded
    /\ resetScores
    /\ wrongItems' = <<>>
    /\ isRetryMode' = FALSE
    /\ StartGame(World, items, currentLesson, FALSE, ZeroResults, <<>>, lastSource, ans)
    /\ lastCall' = "restartGame"
    /\ UNCHANGED <<vocabulary, currentLesson, lessonManager, vocabVars>>

\* restartGame()
restartGame(ans) ==
    /\ mq = <<>>
    /\ Loaded
    /\ resetScores
    /\ wrongItems' = <<>>
    /\ isRetryMode' = FALSE
    /\ StartGame(World, vocabulary, currentLesson, FALSE, ZeroResults, <<>>, lastSource, ans)
    /\ lastCall' = "restartGame"
    /\ UNCHANGED <<vocabulary, currentLesson, lessonManager, vocabVars>>

\* startGame(), called by the page on a loaded engine.
startGame(ans) ==
    /\ mq = <<>>
    /\ Loaded
    /\ UNCHANGED <<correctCount, wrongCount, skippedCount>>
    /\ StartGame(World, vocabulary, currentLesson, isRetryMode, Results, wrongItems,
                 lastSource, ans)
    /\ lastCall' = "startGame"
    /\ UNCHANGED <<vocabulary, wrongItems, isRetryMode, currentLesson, lessonManager,
                   vocabVars>>

\* A retry that starts a pass over the wrong items even when there are none.
retryWrongItemsAlways(ans) ==
    /\ mq = <<>>
    /\ Loaded
    /\ lastCall' = "retryWrongItems"
    /\ threw' = FALSE
    /\ ret' = FALSE
    /\ gameEnd' = NoGameEnd
    /\ Tracks(World, 1, ans) => PushRoom(1) /\ Len(net[1]) < MaxNet
    /\ \E shuffled \in shuffleArray(wrongItems) :
         /\ items' = shuffled
         /\ callbacks' = Displayed("onRetryStart", shuffled, 0)
         /\ SetWorld(startSession(World, 1, EngineGameId,
                [totalWords |-> Len(shuffled), lesson |-> currentLesson,
                 difficulty |-> NULL, isRetryMode |-> TRUE,
                 source |-> lastSource], ans))
    /\ wrongItems' = <<>>
    /\ resetScores
    /\ isRetryMode' = TRUE
    /\ currentIndex' = 0
    /\ hasAnswered' = FALSE
    /\ answersThisItem' = 0
    /\ normalPass' = FALSE
    /\ UNCHANGED <<vocabulary, currentLesson, lessonManager, saveFrequency,
                   fbAvailable, sessions, players, nextKey, net, now, writeFailed>>
    /\ UNCHANGED vocabVars

\* retryWrongItems()
retryWrongItems(ans) ==
    /\ mq = <<>>
    /\ Loaded
    /\ lastCall' = "retryWrongItems"
    /\ threw' = FALSE
    /\ ret' = FALSE
    /\ gameEnd' = NoGameEnd
    /\ IF wrongItems = <<>>
       THEN /\ callbacks' = NoCallbacks
            /\ UNCHANGED <<engineVars, statsVars, playerVars, boardVars, storeVars, answersThisItem,
                           normalPass>>
       ELSE /\ Tracks(World, 1, ans) => PushRoom(1) /\ Len(net[1]) < MaxNet
            /\ \E shuffled \in shuffleArray(wrongItems) :
                 /\ items' = shuffled
                 /\ callbacks' = Displayed("onRetryStart", shuffled, 0)
                 /\ SetWorld(startSession(World, 1, EngineGameId,
                        [totalWords |-> Len(shuffled), lesson |-> currentLesson,
                         difficulty |-> NULL, isRetryMode |-> TRUE,
                         source |-> lastSource], ans))
            /\ wrongItems' = <<>>
            /\ resetScores
            /\ isRetryMode' = TRUE
            /\ currentIndex' = 0
            /\ hasAnswered' = FALSE
            /\ answersThisItem' = 0
            /\ normalPass' = FALSE
            /\ UNCHANGED <<vocabulary, currentLesson, lessonManager, saveFrequency,
                           fbAvailable, sessions, players, nextKey, net, now, writeFailed>>
    /\ UNCHANGED vocabVars

\* shuffleCurrentItems()
shuffleCurrentItems ==
    /\ mq = <<>>
    /\ Loaded
    /\ \E shuffled \in shuffleArray(items) :
         /\ items' = shuffled
         /\ callbacks' = Displayed("none", shuffled, 0)
    /\ currentIndex' = 0
    /\ IF Len(items) = 0
       THEN /\ EndRoom(1)
            /\ SetWorld(showFinalScreen(World, CurrentPass))
            /\ UNCHANGED hasAnswered
       ELSE /\ hasAnswered' = FALSE
            /\ UNCHANGED <<currentSession, startTime, sessionId, answersSinceLastSave,
                           playerId, storedName, playerCalls, boardVars, mq, endReturn>>
    /\ lastCall' = "shuffleCurrentItems"
    /\ answersThisItem' = 0
    /\ normalPass' = FALSE
    /\ threw' = FALSE
    /\ ret' = FALSE
    /\ gameEnd' = NoGameEnd
    /\ UNCHANGED <<vocabulary, correctCount, wrongCount, skippedCount, wrongItems,
                   isRetryMode, currentLesson, lessonManager,
                   saveFrequency, fbAvailable, vocabVars,
                   sessions, players, nextKey, net, now, writeFailed>>


\* ------------------------------------------------------------ specifications
Microtask ==
    \/ CreateAfterInit \/ CreateLiveSession
    \/ UpdateAfterInit \/ updateLiveSession \/ ResetAnswersSinceLastSave
    \/ FinalizeAfterInit \/ finalizeLiveSession \/ saveSession
    \/ AfterFinal \/ updatePlayerStatsRead \/ updatePlayerStatsWrite
    \/ EndSessionReset

InitEngine ==
    /\ vocabulary = <<>> /\ items = <<>> /\ currentIndex = 0
    /\ correctCount = 0 /\ wrongCount = 0 /\ skippedCount = 0
    /\ wrongItems = <<>> /\ isRetryMode = FALSE /\ hasAnswered = FALSE
    /\ currentLesson = NULL
    /\ lastCall = "new" /\ ret = FALSE /\ threw = FALSE
    /\ answersThisItem = 0 /\ normalPass = FALSE
    /\ gameEnd = NoGameEnd
    /\ callbacks = NoCallbacks

InitServices ==
    /\ currentSession = [s \in Inst |-> NoSession]
    /\ startTime = [s \in Inst |-> Absent]
    /\ sessionId = [s \in Inst |-> Absent]
    /\ saveFrequency = [s \in Inst |-> DefaultSaveFrequency]
    /\ answersSinceLastSave = [s \in Inst |-> 0]
    /\ endReturn = [s \in Inst |-> NoReturn]
    /\ playerId = [s \in Inst |-> NULL]
    /\ playerCalls = <<>>
    /\ tiles = <<>> /\ currentTileIndex = Absent /\ quizModal = NULL
    /\ sessions = [id \in 0..MaxSessions |-> NoRecord]
    /\ players = [p \in PlayerNames |-> NoPlayer]
    /\ nextKey = 1
    /\ net = [s \in Inst |-> <<>>]
    /\ mq = <<>>
    /\ now = 0
    /\ writeFailed = FALSE
    /\ cache = [path \in Paths |-> NoVocabulary]
    /\ lastSource = NULL
    /\ onStatusChange = FALSE
    /\ fetches = <<>>
    /\ remoteReads = 0
    /\ statusLog = <<>>
    /\ cleared = FALSE

\* A page with one GameEngine whose user dismisses the name prompt, so that
\* no statistics session is tracked.
Init ==
    /\ InitEngine
    /\ InitServices
    /\ lessonManager \in {[present |-> b, all |-> <<>>] : b \in BOOLEAN}
    /\ storedName = NULL
    /\ fbAvailable = [s \in Inst |-> TRUE]
    /\ connectable = TRUE

Next ==
    \/ \E load \in LoadResults : loadVocabulary(load, NoAnswer)
    \/ \E l \in Lessons : onLessonChange(l, NoAnswer)
    \/ nextItem
    \/ recordCorrect \/ recordWrong \/ recordSkipped
    \/ restartGame(NoAnswer)
    \/ retryWrongItems(NoAnswer)
    \/ shuffleCurrentItems
    \/ ShowFinalScreenResume

Spec == Init /\ [][Next]_vars

\* ------------------------------------------------------- GameEngine claims
RecordStep == recordCorrect \/ recordWrong \/ recordSkipped
RecordCalls == {"recordCorrect", "recordWrong", "recordSkipped"}
Answered == correctCount + wrongCount + skippedCount

StartGameStep ==
    \/ \E load \in LoadResults, ans \in PromptAnswers : loadVocabulary(load, ans)
    \/ \E l \in Lessons, ans \in PromptAnswers : onLessonChange(l, ans)
    \/ \E ans \in PromptAnswers : restartGame(ans)

\* C3: startGame leaves in `items` a permutation of the vocabulary (same
\* length, same multiset of items), and the vocabulary restartGame started
\* from is the vocabulary it leaves.
C3_ItemsPermuteVocabulary ==
    [][StartGameStep
          => /\ IsPermutation(items', vocabulary')
             /\ currentIndex' = 0
             /\ (\E ans \in PromptAnswers : restartGame(ans)) => vocabulary' = vocabulary]_vars

\* A game over three items was restarted into an order other than the
\* vocabulary's.
C3_Witness ==
    /\ lastCall = "restartGame" /\ vocabulary = <<1, 2, 3>>
    /\ items = <<3, 1, 2>> /\ currentIndex = 0

\* C4: retryWrongItems with k >= 1 wrong items makes `items` a permutation
\* of exactly those items, zeroes the three counters and the cursor, sets
\* isRetryMode and empties wrongItems.
C4_RetryOverWrongItems ==
    [][((\E ans \in PromptAnswers : retryWrongItems(ans)) /\ wrongItems # <<>>)
          => /\ IsPermutation(items', wrongItems)
             /\ correctCount' = 0 /\ wrongCount' = 0 /\ skippedCount' = 0
             /\ currentIndex' = 0
             /\ isRetryMode'
             /\ wrongItems' = <<>>]_vars

\* A retry over two wrong items has just begun, in the other order.
C4_Witness ==
    /\ lastCall = "retryWrongItems" /\ isRetryMode /\ wrongItems = <<>>
    /\ items = <<2, 1>> /\ vocabulary = <<1, 2, 3>>
    /\ currentIndex = 0 /\ Answered = 0

\* ------------------------------------------------- VocabularyService alone
InitVocab ==
    /\ InitEngine
    /\ InitServices
    /\ lessonManager = [present |-> FALSE, all |-> <<>>]
    /\ storedName = NULL
    /\ fbAvailable = [s \in Inst |-> TRUE]
    /\ connectable \in BOOLEAN

NextVocab ==
    \/ getEnglishVocabulary
    \/ getHebrewVocabulary
    \/ \E b \in BOOLEAN : setStatusCallback(b)
    \/ clearCache
    \/ \E f \in 1..MaxFetches, o \in RemoteOutcomes : RemoteSettles(f, o)
    \/ \E f \in 1..MaxFetches : Timeout(f)
    \/ \E f \in 1..MaxFetches, o \in JsonOutcomes : JsonSettles(f, o)

SpecVocab == InitVocab /\ [][NextVocab]_vars

RemoteMissed(t) == t \in {"miss", "timeout", "unavailable"}

\* C5: a fetch turns to the local file only after its remote tier missed
\* (no data, a rejection, the timeout, or the store being unreachable); it
\* returns the remote data with source 'firebase' when the remote tier
\* delivered, the local document with source 'json' when the remote tier
\* missed and the local fetch delivered, and null with source 'embedded'
\* when both missed.
C5_TierOrder ==
    \A f \in 1..Len(fetches) :
        LET t == fetches[f]
        IN /\ t.tier2 # "none" => RemoteMissed(t.tier1)
           /\ t.pc = "json" <=> t.tier2 = "pending"
           /\ t.pc = "done" =>
                \/ /\ t.tier1 \in {"hit", "cached"} /\ t.tier2 = "none"
                   /\ t.source = "firebase" /\ t.result = t.remoteData /\ ~t.result.isNull
                \/ /\ RemoteMissed(t.tier1) /\ t.tier2 = "hit"
                   /\ t.source = "json" /\ t.result = t.localData /\ ~t.result.isNull
                \/ /\ RemoteMissed(t.tier1) /\ t.tier2 = "miss"
                   /\ t.source = "embedded" /\ t.result.isNull

\* One fetch was answered by the local file after the remote read failed,
\* another by nothing at all.
C5_Witness ==
    /\ Len(fetches) = 2
    /\ fetches[1].pc = "done" /\ fetches[1].tier1 = "miss" /\ fetches[1].source = "json"
    /\ fetches[1].result = Vocabulary(<<2, 1>>)
    /\ fetches[2].pc = "done" /\ fetches[2].tier1 = "timeout"
    /\ fetches[2].source = "embedded"

LateResponse(f) ==
    /\ f \in 1..Len(fetches)
    /\ fetches[f].remote = "pending" /\ fetches[f].pc # "race"
    /\ fetches'[f].remote = "late"

\* C6: a fetch whose timeout fired before the remote read settled goes on
\* to the local tier with the remote tier counted as a miss, and its result
\* is the local tier's; the remote response that arrives afterwards leaves
\* the fetch, its returned value, the cache, the last source and the status
\* notifications as they were.
C6_TimeoutIsMiss ==
    /\ [](\A f \in 1..Len(fetches) :
             fetches[f].tier1 = "timeout" =>
                /\ fetches[f].pc \in {"json", "done"}
                /\ fetches[f].pc = "done" =>
                       /\ fetches[f].source \in {"json", "embedded"}
                       /\ fetches[f].result = fetches[f].localData)
    /\ [][\A f \in 1..MaxFetches :
             LateResponse(f) =>
                /\ fetches' = [fetches EXCEPT ![f].remote = "late"]
                /\ UNCHANGED <<cache, lastSource, statusLog>>]_vars

\* A fetch timed out, returned the local document, and the remote response
\* came in after that.
C6_Witness ==
    \E f \in 1..Len(fetches) :
        /\ fetches[f].tier1 = "timeout" /\ fetches[f].remote = "late"
        /\ fetches[f].pc = "done" /\ fetches[f].source = "json"
        /\ cache[fetches[f].path].isNull

\* ------------------------------------------------ StatisticsService alone
\* A page that calls the service of one tab directly; the player's name is
\* in localStorage.  The page sets the save frequency before it starts a
\* session and calls endSession once per session.
InitStats ==
    /\ InitEngine
    /\ InitServices
    /\ lessonManager = [present |-> FALSE, all |-> <<>>]
    /\ storedName = "dana"
    /\ fbAvailable \in {[s \in Inst |-> b] : b \in BOOLEAN}
    /\ connectable = TRUE

NextStats ==
    \/ nextKey = 1 /\ ~currentSession[1].active /\ setSaveFrequency(1, SmallSaveFrequency)
    \/ \E o \in SessionOptions :
          nextKey <= MaxDirect /\ callStartSession(1, EngineGameId, o, NoAnswer)
    \/ \E r \in {"correct", "wrong"} : callRecordAnswer(1, r)
    \/ \E r \in EndResults : ~Ending(1) /\ callEndSession(1, r)
    \/ \E ok \in BOOLEAN : Deliver(1, ok)
    \/ Microtask

SpecStats == InitStats /\ [][NextStats]_vars

\* The finalizing update of instance s reaches the remote store.
FinalizeLands(s) ==
    /\ net[s] # <<>>
    /\ Head(net[s]).op = "update" /\ Head(net[s]).k.k = "afterFinal"
    /\ Deliver(s, TRUE)

\* The record a finalizing endSession(results) call is to leave, but for the
\* score: status, the three counts and wordsCompleted.
Finalized(r, call) ==
    LET res == call.results
        correct == IF res.correctCount # Absent THEN res.correctCount ELSE call.live.correctCount
        wrong == IF res.wrongCount # Absent THEN res.wrongCount ELSE call.live.wrongCount
        skipped == IF res.skippedCount # Absent THEN res.skippedCount ELSE call.live.skippedCount
        words == IF res.wordsCompleted \notin {Absent, 0}
                 THEN res.wordsCompleted ELSE correct + wrong + skipped
    IN /\ r.status = "completed"
       /\ r.correctCount = correct /\ r.wrongCount = wrong /\ r.skippedCount = skipped
       /\ r.wordsCompleted = words

\* C9 as stated: the update of endSession(results) on a session with an
\* assigned record leaves the record completed, with the counts of the
\* results (the live counters for omitted ones), wordsCompleted from the
\* results or else the sum of the counts, and the score
\* round(100 * correctCount / wordsCompleted), 0 when wordsCompleted is 0.
C9_FinalRecord ==
    [][\A s \in Inst :
          FinalizeLands(s) =>
             LET o == Head(net[s])
                 r == sessions'[o.id]
             IN /\ Finalized(r, o.k.data)
                /\ r.score = IF r.wordsCompleted = 0 THEN 0
                             ELSE RoundDiv(100 * r.correctCount, r.wordsCompleted)]_vars

\* What does hold of that update: all of the above, with the score as the
\* double arithmetic of _calculateScore yields it.
C9_FinalRecordAsComputed ==
    [][\A s \in Inst :
          FinalizeLands(s) =>
             LET o == Head(net[s])
                 r == sessions'[o.id]
             IN /\ Finalized(r, o.k.data)
                /\ r.score = IF r.wordsCompleted = 0 THEN 0
                             ELSE Percent(r.correctCount, r.wordsCompleted)]_vars

\* A session ended with 23 correct of 40 words is stored with score 57.
C9_Witness ==
    /\ sessions[1].exists /\ sessions[1].status = "completed"
    /\ sessions[1].correctCount = 23 /\ sessions[1].wordsCompleted = 40
    /\ sessions[1].score = 57

Recorded(s) ==
    currentSession[s].correctCount + currentSession[s].wrongCount
        + currentSession[s].skippedCount
Stored(id) ==
    sessions[id].correctCount + sessions[id].wrongCount + sessions[id].skippedCount

\* C10 as stated: with save frequency N and every remote write succeeding,
\* whenever no write is in flight the answers recorded in the active
\* session exceed the counters of its stored in-progress record by at most
\* N - 1.
C10_BoundedLag ==
    \A s \in Inst :
        (/\ currentSession[s].active /\ sessionId[s] # Absent
         /\ net[s] = <<>> /\ mq = <<>> /\ ~writeFailed
         /\ sessions[sessionId[s]].exists
         /\ sessions[sessionId[s]].status = "in_progress")
        => Recorded(s) - Stored(sessionId[s]) <= saveFrequency[s] - 1

\* Five answers recorded at frequency 2, three of them stored, nothing in
\* flight and no write failed.
C10_Witness ==
    /\ currentSession[1].active /\ sessionId[1] = 1
    /\ saveFrequency[1] = SmallSaveFrequency
    /\ net[1] = <<>> /\ mq = <<>> /\ ~writeFailed
    /\ sessions[1].exists /\ sessions[1].status = "in_progress"
    /\ Recorded(1) = 5 /\ Stored(1) = 3

\* ----------------------------------------------------- two tabs, one player
\* Two tabs of one browser, each with its own service instance, sharing
\* localStorage and the remote store.
InitTabs == InitStats /\ fbAvailable[1]

NextTabs ==
    \/ \E s \in Inst, g \in GameIds, o \in SessionOptions :
          /\ ~currentSession[s].active /\ nextKey <= Cardinality(Inst)
          /\ callStartSession(s, g, o, NoAnswer)
    \/ \E s \in Inst : ~Ending(s) /\ callEndSession(s, NoResults)
    \/ \E s \in Inst : Deliver(s, TRUE)
    \/ Tick
    \/ CreateAfterInit \/ CreateLiveSession
    \/ FinalizeAfterInit \/ finalizeLiveSession
    \/ AfterFinal \/ updatePlayerStatsRead \/ updatePlayerStatsWrite
    \/ EndSessionReset

SpecTabs == InitTabs /\ [][NextTabs]_vars

\* The aggregate write of instance s reaches the remote store.
AggregateLands(s) ==
    /\ net[s] # <<>>
    /\ Head(net[s]).op = "setPlayer"
    /\ Deliver(s, TRUE)

\* C8: the aggregate a session's end writes is computed from the snapshot
\* its own earlier read returned (that snapshot's totalSessions plus one,
\* its totalPlayTime plus the session's duration) whatever the store holds
\* when the write arrives; so of two ends whose reads both precede both
\* writes, the later write erases the earlier one.
C8_WriteFromSnapshot ==
    [][\A s \in Inst :
          AggregateLands(s) =>
             LET o == Head(net[s])
                 read == o.k.data.existing
                 session == o.k.data.session
             IN /\ players'[o.player].totalSessions = read.totalSessions + 1
                /\ players'[o.player].totalPlayTime
                       = read.totalPlayTime + session.durationSeconds]_vars

Idle(s) == ~currentSession[s].active /\ net[s] = <<>>

\* Both tabs ended a session of the same player, each lasting a second or
\* more; the aggregate counts one session and one session's play time.
C8_Witness ==
    /\ mq = <<>> /\ \A s \in Inst : Idle(s)
    /\ \A id \in {1, 2} :
          /\ sessions[id].exists /\ sessions[id].status = "completed"
          /\ sessions[id].playerId = "dana" /\ sessions[id].durationSeconds >= 1
    /\ players["dana"].totalSessions = 1
    /\ players["dana"].totalPlayTime < sessions[1].durationSeconds + sessions[2].durationSeconds

\* ------------------------------------------- GameEngine with the service
\* A page with one GameEngine whose player is known and whose remote writes
\* succeed; the page sets the save frequency before the engine loads.
SessionLoads ==
    {[data |-> Vocabulary(<<1>>), source |-> "firebase"],
     [data |-> NoVocabulary, source |-> "embedded"]}

InitSession == InitStats /\ fbAvailable[1]

NextSession ==
    \/ ~Loaded /\ setSaveFrequency(1, 1)
    \/ \E load \in SessionLoads : loadVocabulary(load, NoAnswer)
    \/ nextItem
    \/ recordCorrect \/ recordWrong
    \/ restartGame(NoAnswer)
    \/ retryWrongItems(NoAnswer)
    \/ ShowFinalScreenResume
    \/ Deliver(1, TRUE)
    \/ Microtask

SpecSession == InitSession /\ [][NextSession]_vars

InProgress == {id \in 1..MaxSessions : sessions[id].exists /\ sessions[id].status = "in_progress"}

\* C7 as stated: when the engine opens a session every session it opened
\* before has been ended, so that the remote store never holds two records
\* of the engine with status in_progress.
C7_OneOpenSession == Cardinality(InProgress) <= 1

\* The engine was restarted while its first item was displayed: the record
\* of the first session and the record of the second are both in_progress,
\* and the service holds the second only.
C7_Witness ==
    /\ lastCall = "restartGame" /\ mq = <<>> /\ net[1] = <<>>
    /\ InProgress = {1, 2} /\ sessionId[1] = 2

\* --------------------------------------------- a page that awaits nothing
\* One tab whose page calls the service directly and starts a session only
\* when none is active.  The player's name is unknown at first, and the
\* remote store may be unavailable at first and available later.
PageResults ==
    {NoResults, [NoResults EXCEPT !.correctCount = 2, !.wrongCount = 1, !.skippedCount = 0]}

InitPage ==
    /\ InitEngine
    /\ InitServices
    /\ lessonManager = [present |-> FALSE, all |-> <<>>]
    /\ storedName = NULL
    /\ fbAvailable \in {[s \in Inst |-> b] : b \in BOOLEAN}
    /\ connectable = TRUE

NextPage ==
    \/ \E o \in SessionOptions, ans \in PromptAnswers :
          /\ ~currentSession[1].active /\ net[1] = <<>> /\ nextKey <= MaxDirect
          /\ callStartSession(1, EngineGameId, o, ans)
    \/ callRecordAnswer(1, "correct")
    \/ \E r \in PageResults : ~Ending(1) /\ callEndSession(1, r)
    \/ \E ok \in BOOLEAN : Deliver(1, ok)
    \/ StoreBecomesAvailable(1)
    \/ Tick
    \/ Microtask

SpecPage == InitPage /\ [][NextPage]_vars

EndCalled(s) == \E r \in PageResults : callEndSession(s, r)
\* An endSession call of instance s on an active session settles.
EndReturns(s) ==
    currentSession[s].active /\ endReturn[s] = NoReturn /\ endReturn'[s].settled
Records == {id \in 1..MaxSessions : sessions[id].exists}

FallbackLands(s) ==
    /\ net[s] # <<>>
    /\ Head(net[s]).op = "set" /\ Head(net[s]).k.k = "afterFinal"
    /\ Deliver(s, TRUE)

CreateLands(s) ==
    /\ net[s] # <<>>
    /\ Head(net[s]).op = "set" /\ Head(net[s]).k.k = "none"
    /\ Deliver(s, TRUE)

\* What the store and the service hold of a session when its creation
\* completes, but for the partial-save counter.
Created(s, id) ==
    LET r == sessions'[id]
        cs == currentSession[s]
    IN /\ id \notin Records
       /\ Records' = Records \cup {id}
       /\ \A other \in Records : sessions'[other] = sessions[other]
       /\ r.status = "in_progress"
       /\ r.correctCount = 0 /\ r.wrongCount = 0 /\ r.skippedCount = 0
       /\ r.playerId = cs.playerId /\ Truthy(r.playerId)
       /\ r.gameId = cs.gameId /\ r.totalWords = cs.totalWords
       /\ r.lesson = cs.lesson /\ r.difficulty = cs.difficulty
       /\ r.isRetryMode = cs.isRetryMode /\ r.source = cs.source
       /\ sessionId'[s] = id

\* C13 as stated: when startSession completes, the store holds one new
\* record for the session, in_progress, with counters 0 and the player,
\* game and options of the session; the service's session id is the
\* record's id and its partial-save counter is 0.
C13_SessionCreated ==
    [][\A s \in Inst :
          CreateLands(s) =>
             /\ Created(s, Head(net[s]).id)
             /\ answersSinceLastSave'[s] = 0]_vars

\* C13, amended: as above, with the partial-save counter at the number of
\* answers recorded since the session started, which is 0 when none was
\* recorded before startSession completed.
C13_SessionCreatedThenCounted ==
    [][\A s \in Inst :
          CreateLands(s) =>
             /\ Created(s, Head(net[s]).id)
             /\ answersSinceLastSave'[s] = Recorded(s)]_vars

\* startSession has completed with nothing recorded meanwhile: record 1 is
\* in_progress and the service holds its id.
C13_Witness ==
    /\ currentSession[1].active /\ sessionId[1] = 1
    /\ mq = <<>> /\ net[1] = <<>> /\ ~writeFailed
    /\ Records = {1} /\ sessions[1].status = "in_progress"
    /\ sessions[1].playerId = "dana" /\ sessions[1].totalWords = 3
    /\ Recorded(1) = 0 /\ answersSinceLastSave[1] = 0

\* startSession is called with no name cached or stored, and the prompt is
\* cancelled or answered with nothing but blanks.
StartUnresolved(s) ==
    \E o \in SessionOptions, ans \in PromptAnswers :
        /\ ~Truthy(playerId[s]) /\ ~Truthy(storedName)
        /\ ~Truthy(ans) \/ Normalize(ans) = ""
        /\ callStartSession(s, EngineGameId, o, ans)

\* C14: a startSession that resolves no player identity leaves no session
\* active and writes nothing; while no identity is resolved, recordAnswer
\* changes no counter and writes nothing, and endSession returns null and
\* writes nothing.
C14_UntrackedWithoutPlayer ==
    [][\A s \in Inst :
          /\ StartUnresolved(s)
                => /\ ~currentSession'[s].active /\ sessionId'[s] = Absent
                   /\ UNCHANGED <<net, mq, sessions, players, nextKey>>
          /\ (callRecordAnswer(s, "correct") /\ ~Truthy(playerId[s]))
                => UNCHANGED <<currentSession, answersSinceLastSave, net, mq,
                               sessions, players>>
          /\ (EndCalled(s) /\ ~Truthy(playerId[s]))
                => /\ endReturn'[s] = Returned(Absent)
                   /\ UNCHANGED <<net, mq, sessions, players>>]_vars

\* The prompt was answered with an empty name, so that startSession tracked
\* nothing, and an endSession after that returned null; the store is empty.
C14_Witness ==
    /\ playerId[1] = "" /\ storedName = NULL
    /\ endReturn[1] = Returned(Absent) /\ ~currentSession[1].active
    /\ Records = {} /\ ~players["dana"].exists /\ net[1] = <<>> /\ mq = <<>>

\* ------------------------------------------------- the player's aggregate
Completed == {id \in Records : sessions[id].status = "completed"}
NoDuplicates(seq) == Cardinality(Range(seq)) = Len(seq)
\* The second tab has never asked for the player, so never started a session.
OnlyFirstTab == ~Truthy(playerId[2])

PassStarts ==
    /\ \/ \E load \in LoadResults : loadVocabulary(load, NoAnswer)
       \/ \E l \in Lessons : onLessonChange(l, NoAnswer)
       \/ restartGame(NoAnswer)
       \/ wrongItems # <<>> /\ retryWrongItems(NoAnswer)
    /\ ~threw'

\* The step invoked onDisplayItem for the item under the cursor, with its
\* index and the length of the sequence; or the cursor is at the end and it
\* invoked nothing.
ShowsCurrent ==
    /\ callbacks'.onDisplayItem <=> currentIndex' < Len(items')
    /\ callbacks'.onDisplayItem =>
          /\ callbacks'.index = currentIndex'
          /\ callbacks'.item = items'[currentIndex' + 1]
          /\ callbacks'.total = Len(items')

\* The step called showFinalScreen(), once.
EndTriggered == Len(mq') = 1 /\ mq'[1].k = "ended"

\* C16: a pass starts with the cursor at 0; the start and every nextItem
\* after a displayed item invoke onDisplayItem once, for the item under the
\* cursor with its index and the length n of the sequence, nextItem moving
\* the cursor by one over the unchanged sequence, and no record call
\* displays anything; showFinalScreen is called by the step that brings the
\* cursor to n and by no other, and onGameEnd once for each such call.
C16_DisplayedInOrder ==
    [][/\ PassStarts
            => /\ currentIndex' = 0 /\ ShowsCurrent
               /\ IF Len(items') = 0 THEN EndTriggered ELSE mq' = <<>>
       /\ (nextItem /\ currentIndex < Len(items))
            => /\ items' = items /\ currentIndex' = currentIndex + 1
               /\ ShowsCurrent
               /\ IF currentIndex' = Len(items) THEN EndTriggered ELSE mq' = <<>>
       /\ RecordStep
            => /\ callbacks' = NoCallbacks
               /\ UNCHANGED <<items, currentIndex, mq>>
       /\ ShowFinalScreenResume
            => /\ currentIndex >= Len(items) /\ mq' = <<>>
               /\ gameEnd'.fired /\ gameEnd'.total = Len(items)
       /\ ~ShowFinalScreenResume => ~gameEnd'.fired]_vars

\* A pass over three items, each answered and followed by one nextItem, has
\* ended: the cursor is at 3 and onGameEnd was called with total 3.
C16_Witness ==
    /\ lastCall = "nextItem" /\ mq = <<>>
    /\ Len(items) = 3 /\ currentIndex = 3 /\ normalPass
    /\ Answered = 3
    /\ gameEnd.fired /\ gameEnd.total = 3
    /\ ~callbacks.onDisplayItem

\* ------------------------------------------------- the end of a pass
\* The engine at the end of a pass over n items none of which has an
\* `english` or `word` key, the first c answered correctly and the others
\* wrongly, with the name prompt dismissed: showFinalScreen() has called
\* endSession and waits for it.
FinalItems(n) == [i \in 1..n |-> i + 3]
\* The remote store delivers no empty vocabulary; the local file may.
FinalSource(n) == IF n = 0 THEN "json" ELSE "firebase"

InitFinal ==
    \E n \in 0..MaxItems : \E c \in 0..n :
        /\ vocabulary = FinalItems(n) /\ items = FinalItems(n) /\ currentIndex = n
        /\ correctCount = c /\ wrongCount = n - c /\ skippedCount = 0
        /\ wrongItems = SubSeq(FinalItems(n), c + 1, n)
        /\ isRetryMode = FALSE /\ hasAnswered = (n > 0)
        /\ currentLesson = NULL
        /\ lessonManager = [present |-> FALSE, all |-> <<>>]
        /\ lastCall = IF n = 0 THEN "loadVocabulary" ELSE "nextItem"
        /\ ret = FALSE /\ threw = FALSE
        /\ answersThisItem = 0 /\ normalPass = TRUE
        /\ gameEnd = NoGameEnd
        /\ callbacks = Displayed(IF n = 0 THEN "onGameStart" ELSE "none", FinalItems(n), n)
        /\ currentSession = [s \in Inst |-> NoSession]
        /\ startTime = [s \in Inst |-> Absent]
        /\ sessionId = [s \in Inst |-> Absent]
        /\ saveFrequency = [s \in Inst |-> DefaultSaveFrequency]
        /\ answersSinceLastSave = [s \in Inst |-> 0]
        /\ fbAvailable = [s \in Inst |-> TRUE]
        /\ endReturn = [s \in Inst |-> IF s = 1 THEN Returned(Absent) ELSE NoReturn]
        /\ playerId = [s \in Inst |-> NULL]
        /\ storedName = NULL
        /\ playerCalls = <<>>
        /\ tiles = <<>> /\ currentTileIndex = Absent /\ quizModal = NULL
        /\ sessions = [id \in 0..MaxSessions |-> NoRecord]
        /\ players = [p \in PlayerNames |-> NoPlayer]
        /\ nextKey = 1
        /\ net = [s \in Inst |-> <<>>]
        /\ mq = <<Cont("ended", 1, Absent, NoData,
                       AwaitedFor(Pass([correctCount |-> c, wrongCount |-> n - c,
                                        skippedCount |-> 0],
                                       n, SubSeq(FinalItems(n), c + 1, n), FALSE)))>>
        /\ now = 0
        /\ writeFailed = FALSE
        /\ cache = [path \in Paths |-> NoVocabulary]
        /\ lastSource = FinalSource(n)
        /\ onStatusChange = TRUE
        /\ fetches = <<>>
        /\ remoteReads = 0
        /\ statusLog = <<[isOnline |-> n > 0, source |-> FinalSource(n)]>>
        /\ connectable = TRUE
        /\ cleared = FALSE

NextFinal == ShowFinalScreenResume

SpecFinal == InitFinal /\ [][NextFinal]_vars

\* C17 as stated: the percentage passed to onGameEnd is the exact quotient
\* 100 * correctCount / total rounded to the nearest integer, halves up,
\* and 0 when total is 0.
C17_PercentageExact ==
    gameEnd.fired =>
        gameEnd.percentage = IF gameEnd.total = 0 THEN 0
                             ELSE RoundDiv(100 * gameEnd.correctCount, gameEnd.total)

\* A pass over 40 items with 23 correct answers was reported with 57 per
\* cent, the exact quotient being 57.5.
C17_Witness ==
    /\ gameEnd.fired /\ gameEnd.total = 40 /\ gameEnd.correctCount = 23
    /\ gameEnd.percentage = 57

\* ------------------------------------------------ retry with nothing wrong
\* C18: retryWrongItems called while wrongItems is empty changes nothing of
\* the engine (sequence, cursor, counters, isRetryMode, hasAnswered), opens
\* no statistics session and writes nothing, and invokes neither
\* onRetryStart nor onDisplayItem; it does not throw.
C18_EmptyRetryIsNoOp ==
    [][(retryWrongItems(NoAnswer) /\ wrongItems = <<>>)
          => /\ UNCHANGED <<engineVars, statsVars, playerVars, boardVars, storeVars>>
             /\ callbacks' = NoCallbacks
             /\ ~threw']_vars

\* retryWrongItems was called in the middle of a first pass, after a
\* correct answer, with a statistics session running: nothing was wrong,
\* and the pass and the session are as they were.
C18_Witness ==
    /\ lastCall = "retryWrongItems" /\ ~threw
    /\ wrongItems = <<>> /\ ~isRetryMode
    /\ items # <<>> /\ currentIndex = 0 /\ hasAnswered /\ correctCount = 1
    /\ currentSession[1].active /\ ~currentSession[1].isRetryMode
    /\ callbacks = NoCallbacks

\* ------------------------------------------------------ calls that throw
\* C19 as stated: no call of startGame, nextItem, recordCorrect,
\* recordWrong, recordSkipped, restartGame, retryWrongItems or
\* shuffleCurrentItems throws, answers after the end of the sequence or on
\* an empty sequence included.
C19_NoCallThrows == ~threw

\* The first item, which has an `english` key, was answered wrongly, the
\* others were passed over unanswered, and recordWrong was called after
\* the last nextItem: isSameItem read `english` of undefined.
C19_Witness ==
    /\ threw /\ lastCall = "recordWrong"
    /\ Len(items) = 3 /\ currentIndex = 3
    /\ ItemAt(items, currentIndex) = Undefined
    /\ wrongItems # <<>> /\ English(wrongItems[1]) # ""
    /\ hasAnswered /\ wrongCount = 2

\* ------------------------------------------------- no vocabulary to load
\* A page whose engine is initialised and then left alone, the vocabulary
\* fetch yielding null or an empty list.  The player may be known or asked
\* for, the remote store available or not, and its writes may fail; every
\* pending continuation runs and every remote operation settles.
EmptyLoads ==
    {[data |-> Vocabulary(<<>>), source |-> "json"],
     [data |-> NoVocabulary, source |-> "embedded"]}

InitEmpty ==
    /\ InitEngine
    /\ InitServices
    /\ lessonManager \in {[present |-> b, all |-> <<>>] : b \in BOOLEAN}
    /\ storedName \in {NULL, "dana"}
    /\ fbAvailable \in {[s \in Inst |-> b] : b \in BOOLEAN}
    /\ connectable = TRUE

Settle == \E ok \in BOOLEAN : Deliver(1, ok)

EndContinues ==
    \/ CreateAfterInit \/ CreateLiveSession
    \/ saveSession
    \/ AfterFinal \/ updatePlayerStatsRead \/ updatePlayerStatsWrite
    \/ EndSessionReset

NextEmpty ==
    \/ \E load \in EmptyLoads, ans \in PromptAnswers : loadVocabulary(load, ans)
    \/ Settle
    \/ Tick
    \/ EndContinues
    \/ ShowFinalScreenResume

SpecEmpty ==
    /\ InitEmpty /\ [][NextEmpty]_vars
    /\ WF_vars(\E load \in EmptyLoads, ans \in PromptAnswers : loadVocabulary(load, ans))
    /\ WF_vars(EndContinues) /\ WF_vars(ShowFinalScreenResume) /\ WF_vars(Settle)

Failures == {"empty", "error", "networkError", "notOk", "parseError", "nullDoc"}
Resolved(t) == t.pc = "done" /\ (t.result.isNull <=> t.source = "embedded")

\* C21: a vocabulary fetch is never rejected.  With the remote store not
\* initialised it goes to the local file; a remote read error and the
\* timeout send it to the local file; a network error, a non-OK response
\* and an unparsable document of the local file make it resolve to null.
C21_FetchNeverRejects ==
    /\ [](\A f \in 1..Len(fetches) :
             /\ fetches[f].pc \in {"race", "json", "done"}
             /\ fetches[f].pc = "done" => Resolved(fetches[f]))
    /\ [][\A f \in 1..MaxFetches :
             /\ (/\ f <= Len(fetches) /\ fetches[f].pc = "race"
                 /\ \E o \in RemoteOutcomes : o.kind \in Failures /\ RemoteSettles(f, o))
                   => fetches'[f].pc = "json"
             /\ (f <= Len(fetches) /\ Timeout(f)) => fetches'[f].pc = "json"
             /\ (/\ f <= Len(fetches)
                 /\ \E o \in JsonOutcomes : o.kind \in Failures /\ JsonSettles(f, o))
                   => Resolved(fetches'[f]) /\ fetches'[f].result.isNull
             /\ (/\ f = Len(fetches) + 1 /\ ~connectable
                 /\ getEnglishVocabulary \/ getHebrewVocabulary)
                   => fetches'[f].pc = "json"]_vars

\* The remote store could not be initialised for the first fetch and the
\* local file failed too; the second fetch got the local document: the
\* first resolved to null, the second to a value.
C21_Witness ==
    /\ ~connectable /\ Len(fetches) = 2
    /\ fetches[1].tier1 = "unavailable" /\ fetches[1].tier2 = "miss"
    /\ fetches[1].pc = "done" /\ fetches[1].result.isNull
    /\ fetches[2].tier1 = "unavailable" /\ fetches[2].pc = "done"
    /\ fetches[2].result = Vocabulary(<<2, 1>>)

\* ------------------------------------------------------ empty collections
\* C22 as stated: a fetch never returns an empty vocabulary with source
\* 'firebase' or 'json'; a tier that delivers an empty collection counts
\* as a miss and the fetch goes on to the next tier.
C22_EmptyIsMiss ==
    \A f \in 1..Len(fetches) :
        (fetches[f].pc = "done" /\ fetches[f].source \in {"firebase", "json"})
            => fetches[f].result.vocabulary # <<>>

\* The remote read found nothing and the local file holds a document with
\* an empty list: the fetch returned that list with source 'json'.
C22_Witness ==
    /\ Len(fetches) >= 1
    /\ fetches[1].pc = "done" /\ fetches[1].tier1 = "miss"
    /\ fetches[1].tier2 = "hit" /\ fetches[1].source = "json"
    /\ ~fetches[1].result.isNull /\ fetches[1].result.vocabulary = <<>>
    /\ lastSource = "json"

\* ------------------------------------------------------------ the cache
\* The call that getVocabulary(path) appends to the calls made.
Started == fetches'[Len(fetches) + 1]
\* A remote read of `path` delivers data to a fetch that still waits for it.
ReadSucceeds(path) ==
    \E f \in 1..Len(fetches), o \in Documents(FetchedVocabularies) :
        /\ fetches[f].path = path /\ fetches[f].pc = "race"
        /\ RemoteSettles(f, o)
        /\ cache'[path] = Vocabulary(o.vocabulary)

\* A fetch of a cached path returns the cached data and reads nothing; the
\* cache of a path changes only when a remote read of the path succeeds,
\* which stores the data read, and when clearCache empties it.
CacheHolds(path) ==
    /\ (getVocabulary(path) /\ connectable /\ ~cache[path].isNull)
          => /\ Started.pc = "done" /\ Started.source = "firebase"
             /\ Started.result = cache[path]
             /\ remoteReads' = remoteReads
    /\ (getVocabulary(path) /\ connectable /\ cache[path].isNull)
          => remoteReads' = remoteReads + 1
    /\ clearCache => cache'[path].isNull
    /\ cache'[path] # cache[path] => clearCache \/ ReadSucceeds(path)

\* C23 as stated: data read from the remote store is cached per path and
\* returned to every later fetch of the path without another remote read,
\* until clearCache; nothing else is cached; and the first fetch after
\* clearCache issues a remote read.
C23_CachedUntilCleared ==
    [][\A path \in Paths :
          /\ CacheHolds(path)
          /\ (cleared /\ connectable /\ getVocabulary(path))
                => /\ Started.afterClear /\ Started.tier1 = "pending"
                   /\ remoteReads' = remoteReads + 1]_vars

\* clearCache was called while the remote read of a fetch was under way;
\* the read then succeeded, and the first fetch after clearCache was served
\* from the cache: one remote read was issued in all.
C23_Witness ==
    /\ Len(fetches) = 2 /\ remoteReads = 1
    /\ fetches[1].path = fetches[2].path
    /\ ~fetches[1].afterClear /\ fetches[2].afterClear
    /\ fetches[1].tier1 = "hit" /\ fetches[2].tier1 = "cached"
    /\ fetches[2].pc = "done" /\ fetches[2].result = fetches[1].result

\* ---------------------------------------------------- status notifications
\* The step makes call f return.
Completes(f) ==
    /\ f <= Len(fetches') /\ fetches'[f].pc = "done"
    /\ f > Len(fetches) \/ fetches[f].pc # "done"

\* C24: the step on which a fetch returns invokes the status callback, if
\* one is registered, once, with the source of the fetch and isOnline true
\* exactly for source 'firebase', and leaves that source as the last
\* source; no other step invokes the callback or changes the last source,
\* and a fetch that has returned keeps its result and source.
C24_OneNotification ==
    [][/\ \A f \in 1..MaxFetches :
            /\ Completes(f)
                  => /\ lastSource' = fetches'[f].source
                     /\ statusLog' =
                           IF onStatusChange
                           THEN Append(statusLog,
                                       [isOnline |-> fetches'[f].source = "firebase",
                                        source |-> fetches'[f].source])
                           ELSE statusLog
            /\ (f <= Len(fetches) /\ fetches[f].pc = "done")
                  => /\ fetches'[f].pc = "done"
                     /\ fetches'[f].source = fetches[f].source
                     /\ fetches'[f].result = fetches[f].result
       /\ (\A f \in 1..MaxFetches : ~Completes(f)) => UNCHANGED <<statusLog, lastSource>>]_vars

\* With a callback registered, one fetch was answered by the remote store
\* and the next by the local file: two notifications, the first online, and
\* the last source is the second one's.
C24_Witness ==
    /\ onStatusChange /\ Len(fetches) = 2
    /\ fetches[1].pc = "done" /\ fetches[2].pc = "done"
    /\ statusLog = <<[isOnline |-> TRUE, source |-> "firebase"],
                     [isOnline |-> FALSE, source |-> "json"]>>
    /\ lastSource = "json"


\* --------------------------------------------------- PlayerService alone
\* Two tabs share the browser's localStorage; each has its own PlayerService
\* and calls it directly.
InitPlayer ==
    /\ InitEngine
    /\ InitServices
    /\ lessonManager = [present |-> FALSE, all |-> <<>>]
    /\ storedName \in {NULL, "dana"}
    /\ fbAvailable = [s \in Inst |-> TRUE]
    /\ connectable = TRUE

NextPlayer ==
    \/ \E s \in Inst, ans \in PromptAnswers : callGetPlayerId(s, ans)
    \/ \E s \in Inst : getPlayerIdSilent(s)
    \/ \E s \in Inst : clearPlayerId(s)
    \/ \E s \in Inst, name \in PromptAnswers : setPlayerId(s, name)

SpecPlayer == InitPlayer /\ [][NextPlayer]_vars

LastPlayerCall == playerCalls[Len(playerCalls)]
\* The call about to be made on instance s directly follows a getPlayerId()
\* call of the same instance.
FollowsGetPlayerId(s) ==
    /\ playerCalls # <<>>
    /\ LastPlayerCall.op = "getPlayerId" /\ LastPlayerCall.s = s

\* C25: of two consecutive getPlayerId() calls on the same PlayerService the
\* second shows no prompt and returns the very value the first returned.
C25_SecondCallCached ==
    [][\A s \in Inst :
          (FollowsGetPlayerId(s) /\ \E ans \in PromptAnswers : callGetPlayerId(s, ans))
             => /\ ~playerCalls'[Len(playerCalls')].prompted
                /\ playerCalls'[Len(playerCalls')].name = LastPlayerCall.name]_vars

\* The first prompt was cancelled and the call returned null; the next call
\* prompted again and returned the name typed then.
C25_Witness ==
    /\ Len(playerCalls) = 2
    /\ playerCalls[1] = PlayerCall("getPlayerId", 1, TRUE, NULL)
    /\ playerCalls[2] = PlayerCall("getPlayerId", 1, TRUE, "dana")

\* C26: getPlayerId() always returns a non-empty string, whatever the user
\* answers to the prompt.
C26_AlwaysNamed ==
    \A i \in 1..Len(playerCalls) :
        playerCalls[i].op = "getPlayerId" => Truthy(playerCalls[i].name)

\* Nothing is stored, the prompt is shown once and answered with blanks:
\* the call returns null and nothing is stored or cached.
C26_Witness ==
    /\ playerCalls = <<PlayerCall("getPlayerId", 1, TRUE, NULL)>>
    /\ storedName = NULL /\ playerId[1] = NULL


\* ------------------------------------------------- counters and the cursor
Scored == correctCount + wrongCount + skippedCount

\* C27: within a pass each item is scored at most once, in one counter only,
\* so in every reachable state the three counters together, and the correct
\* counter alone, do not exceed the number of items of the sequence.
C27_ScoredAtMostOnce ==
    /\ Scored <= Len(items)
    /\ correctCount <= Len(items)

\* In the middle of a non-empty sequence more answers are counted than the
\* sequence has items: the sequence was reshuffled after answers were scored.
C27_Witness ==
    /\ items # <<>> /\ currentIndex < Len(items)
    /\ lastCall = "recordCorrect" /\ ret
    /\ correctCount > Len(items)


\* C28: the cursor stays within 0..items.length, no step of a session moves
\* it back, and once it equals items.length a nextItem() call leaves it
\* there and does not start the end-of-game report again.
C28_CursorMonotone ==
    /\ [](currentIndex \in 0..Len(items))
    /\ [][(nextItem \/ shuffleCurrentItems) => currentIndex' >= currentIndex]_vars
    /\ [][(currentIndex = Len(items) /\ nextItem)
             => currentIndex' = currentIndex /\ mq' = mq]_vars

\* nextItem() was called on a sequence that had ended: the cursor is past
\* the end and onGameEnd has been invoked once more.
C28_Witness ==
    /\ items # <<>> /\ currentIndex = Len(items) + 1
    /\ lastCall = "nextItem"
    /\ gameEnd.fired /\ gameEnd.total = Len(items)


\* ------------------------------------------- startGame() called by the page
\* The page of SpecSession, which also calls startGame() itself.
NextStart ==
    \/ NextSession
    \/ startGame(NoAnswer)

SpecStart == InitSession /\ [][NextStart]_vars

\* A step that runs startGame(): the call itself, or one made by
\* loadVocabulary() or restartGame().
StartGameRuns ==
    \/ startGame(NoAnswer)
    \/ restartGame(NoAnswer)
    \/ \E load \in SessionLoads : loadVocabulary(load, NoAnswer)

\* C29: after startGame() the cursor and the three counters are 0, a
\* statistics session is open whose totalWords is the number of items, and
\* onGameStart was invoked before the first item was displayed.
C29_StartGameResets ==
    [][StartGameRuns
          => /\ currentIndex' = 0
             /\ correctCount' = 0 /\ wrongCount' = 0 /\ skippedCount' = 0
             /\ callbacks'.start = "onGameStart"
             /\ items' # <<>>
                   => /\ currentSession'[1].active
                      /\ currentSession'[1].totalWords = Len(items')]_vars

\* startGame() was called after an answer had been counted: the cursor is 0,
\* a new session is open and onGameStart was invoked, the counter is kept.
C29_Witness ==
    /\ lastCall = "startGame"
    /\ currentIndex = 0 /\ correctCount = 1
    /\ callbacks.start = "onGameStart" /\ callbacks.onDisplayItem
    /\ currentSession[1].active /\ currentSession[1].totalWords = Len(items)
    /\ currentSession[1].correctCount = 0


\* ------------------------------------------ the results given to onGameEnd
\* The pass whose showFinalScreen() call resumes next.
EndedPass == Head(mq).eng.pass

\* C30: onGameEnd is given the counters, the total, the wrong items and the
\* retry flag of the pass that reached its end, and only once the endSession
\* call made for that pass has settled, whatever the engine was asked to do
\* while that call was pending.
C30_ReportsEndedPass ==
    [][ShowFinalScreenResume
          => /\ gameEnd'.fired
             /\ gameEnd'.correctCount = EndedPass.correctCount
             /\ gameEnd'.wrongCount = EndedPass.wrongCount
             /\ gameEnd'.skippedCount = EndedPass.skippedCount
             /\ gameEnd'.total = EndedPass.total
             /\ gameEnd'.wrongItems = EndedPass.wrongItems
             /\ gameEnd'.isRetryMode = EndedPass.isRetryMode
             /\ endReturn[1].settled]_vars

\* restartGame() was called while the session of a pass with one correct
\* answer was being finalized: the record of that pass is completed with
\* its count, and onGameEnd reported the counters of the pass just begun.
C30_Witness ==
    /\ lastCall = "restartGame" /\ items # <<>> /\ currentIndex = 0
    /\ gameEnd.fired /\ gameEnd.correctCount = 0 /\ gameEnd.total = Len(items)
    /\ \E id \in 1..MaxSessions :
          /\ sessions[id].status = "completed" /\ sessions[id].correctCount = 1


\* ------------------------------------------- the record a session writes to
\* The step made instance s send the write `o` to the remote store.
Sends(s, o) == net'[s] = Append(net[s], o) \/ net'[s] = Append(Tail(net[s]), o)

\* The creation of the record of the session instance s holds is under way:
\* startSession has replaced the session, the new id is not assigned yet.
CreatePending(s) ==
    \E i \in 1..Len(mq) : mq[i].s = s /\ mq[i].k \in {"create1", "create2"}

\* Record `id` is the one created for the session instance s holds: the id
\* was assigned after the session began, and what was stored on creation,
\* or is on its way to the store, describes that session.
CreatedFor(id, s) ==
    /\ id = sessionId[s] /\ id # Absent /\ ~CreatePending(s)
    /\ \A d \in {sessions[id]} \cup
               {net[s][i].data : i \in {j \in 1..Len(net[s]) :
                                          net[s][j].op = "set" /\ net[s][j].id = id}} :
          ("playerId" \in DOMAIN d /\ d.playerId # NULL)
             => /\ d.gameId = currentSession[s].gameId
                /\ d.totalWords = currentSession[s].totalWords
                /\ d.startTime = startTime[s]

NextOverlap ==
    \/ \E g \in GameIds, o \in SessionOptions :
          /\ ~currentSession[1].active \/ Ending(1)
          /\ callStartSession(1, g, o, NoAnswer)
    \/ ~Ending(1) /\ callEndSession(1, NoResults)
    \/ Deliver(1, TRUE)
    \/ CreateAfterInit \/ CreateLiveSession
    \/ FinalizeAfterInit \/ finalizeLiveSession
    \/ AfterFinal \/ updatePlayerStatsRead \/ updatePlayerStatsWrite
    \/ EndSessionReset

SpecOverlap == InitTabs /\ [][NextOverlap]_vars

\* The session the instance holds is not the one whose endSession call the
\* continuation c belongs to: it has a record of its own.
NewSessionHeld(c) ==
    /\ currentSession[c.s].active
    /\ sessionId[c.s] # Absent /\ sessionId[c.s] # c.sid

\* C32: a session started while an endSession call awaits the store is
\* still the active session, with its record id, when that call completes,
\* and the aggregate update of the ended session is made with the game id
\* of the ended session.
C32_NewSessionSurvives ==
    /\ [][(EndSessionReset /\ NewSessionHeld(Head(mq)))
             => /\ currentSession'[1] = currentSession[1]
                /\ sessionId'[1] = sessionId[1]]_vars
    /\ [][(AfterFinal /\ Head(mq).sid # Absent)
             => mq'[Len(mq')].data.gameId = Head(mq).data.session.gameId]_vars

\* Game g1 was ended and game g2 started before the store had answered:
\* the record of g2 is in progress, yet no session is active, and the
\* aggregate lists g2 as played, not g1.
C32_Witness ==
    /\ sessions[1].status = "completed" /\ sessions[1].gameId = "g1"
    /\ sessions[2].status = "in_progress" /\ sessions[2].gameId = "g2"
    /\ ~currentSession[1].active /\ sessionId[1] = Absent
    /\ net[1] = <<>> /\ mq = <<>>
    /\ players["dana"].gamesPlayed = <<"g2">>


\* ------------------------------------------------ a finalized record's counts
Counts(r) == <<r.correctCount, r.wrongCount, r.skippedCount>>

\* C33: once a record is completed its three counts stay what endSession
\* stored: no counter update delivered afterwards changes them.
C33_FinalCountsKept ==
    [][\A id \in 1..MaxSessions :
          (sessions[id].exists /\ sessions[id].status = "completed")
             => Counts(sessions'[id]) = Counts(sessions[id])]_vars

\* endSession stored 2 correct of 3 words with score 67; an answer recorded
\* before that call had settled then replaced the counts of the record.
C33_Witness ==
    /\ sessions[1].exists /\ sessions[1].status = "completed"
    /\ sessions[1].wordsCompleted = 3 /\ sessions[1].score = 67
    /\ sessions[1].correctCount + sessions[1].wrongCount + sessions[1].skippedCount # 3


\* ------------------------------------------------ shuffleCurrentItems()
\* The page of a tracked game with a shuffle button.
NextShuffle ==
    \/ ~Loaded /\ setSaveFrequency(1, 1)
    \/ \E load \in SessionLoads : loadVocabulary(load, NoAnswer)
    \/ nextItem
    \/ recordCorrect \/ recordWrong
    \/ shuffleCurrentItems
    \/ ShowFinalScreenResume
    \/ Deliver(1, TRUE)
    \/ Microtask

SpecShuffle == InitSession /\ [][NextShuffle]_vars

\* The kinds of continuation a startSession or endSession call on a held
\* session leaves in the microtask queue.
SessionCalls == {"create1", "finalize1", "save1"}

\* C34: shuffleCurrentItems() replaces the sequence by a permutation of
\* itself and sets the cursor to 0; it leaves the three counters, the wrong
\* items and the retry flag alone, and neither starts nor ends a statistics
\* session.
C34_ShuffleFrame ==
    [][shuffleCurrentItems
          => /\ IsPermutation(items', items)
             /\ currentIndex' = 0
             /\ UNCHANGED <<correctCount, wrongCount, skippedCount, wrongItems, isRetryMode>>
             /\ UNCHANGED <<currentSession, sessionId, startTime, net>>
             /\ \A i \in 1..Len(mq') : mq'[i].k \notin SessionCalls]_vars

\* The vocabulary is empty and the session opened for it is still held:
\* shuffleCurrentItems() has called endSession for it.
C34_Witness ==
    /\ lastCall = "shuffleCurrentItems" /\ items = <<>> /\ currentIndex = 0
    /\ currentSession[1].active
    /\ \E i \in 1..Len(mq) : mq[i].k = "finalize1" /\ mq[i].eng.awaited


\* The vocabulary of the selected lesson: the lesson manager's selection
\* over the loaded list, or the whole list without a lesson manager.
LessonVocabulary ==
    IF lessonManager.present /\ lessonManager.all # <<>>
    THEN ItemsForLesson(currentLesson, lessonManager.all)
    ELSE vocabulary

\* C35: restartGame, from any state (retry mode included), leaves the three
\* counters at 0, the wrong-item set empty, isRetryMode false, the cursor at
\* 0 and the active sequence a permutation of the lesson-scoped vocabulary.
C35_RestartIsFreshPass ==
    [][(\E ans \in PromptAnswers : restartGame(ans))
          => /\ correctCount' = 0 /\ wrongCount' = 0 /\ skippedCount' = 0
             /\ wrongItems' = <<>>
             /\ ~isRetryMode'
             /\ currentIndex' = 0
             /\ IsPermutation(items', LessonVocabulary')]_vars

\* A restart has just begun a pass over the whole three-item vocabulary with
\* nothing counted and nothing marked wrong.
C35_Witness ==
    /\ lastCall = "restartGame" /\ ~isRetryMode /\ wrongItems = <<>>
    /\ vocabulary = <<1, 2, 3>> /\ Len(items) = 3 /\ currentIndex = 0
    /\ Answered = 0
    /\ callbacks.start = "onGameStart" /\ callbacks.total = 3


\* The identity key of an item: its `english`, else its `word`, else the
\* item itself.
IdentityKey(i) ==
    IF English(i) # "" THEN <<"english", English(i)>>
    ELSE IF Word(i) # "" THEN <<"word", Word(i)>>
    ELSE <<"reference", i>>

HoldsKeyOf(ws, item) == \E i \in 1..Len(ws) : IdentityKey(ws[i]) = IdentityKey(item)

IsPrefix(a, b) == Len(a) <= Len(b) /\ \A i \in 1..Len(a) : a[i] = b[i]

\* C36: the wrong-item set never holds two items with the same identity key;
\* an item whose wrong answer or skip was counted is held by it from then on
\* until the set is cleared, and the items already held keep their places
\* (order of first insertion).
C36_WrongItemsKeyedSet ==
    /\ [](\A i, j \in 1..Len(wrongItems) :
             IdentityKey(wrongItems[i]) = IdentityKey(wrongItems[j]) => i = j)
    /\ [][/\ ((recordWrong \/ recordSkipped)
               /\ wrongCount' + skippedCount' > wrongCount + skippedCount
               /\ ItemAt(items, currentIndex) # Undefined)
              => HoldsKeyOf(wrongItems', ItemAt(items, currentIndex))
           /\ (wrongItems' = <<>> \/ IsPrefix(wrongItems, wrongItems'))]_vars

\* A wrong answer to a displayed item has been counted while the set holds
\* only the `undefined` pushed by an answer given after the pass had ended.
C36_Witness ==
    /\ lastCall = "recordWrong" /\ threw
    /\ ItemAt(items, currentIndex) # Undefined
    /\ wrongItems = <<Undefined>>
    /\ wrongCount = 2


\* C37: onLessonChange leaves the engine in the state of a fresh normal
\* pass over the selected lesson: the three counters and the cursor are 0,
\* the wrong-item set is empty and isRetryMode is false.
C37_LessonChangeIsFreshPass ==
    [][(\E l \in Lessons, ans \in PromptAnswers : onLessonChange(l, ans))
          => /\ correctCount' = 0 /\ wrongCount' = 0 /\ skippedCount' = 0
             /\ currentIndex' = 0
             /\ wrongItems' = <<>>
             /\ ~isRetryMode'
             /\ IsPermutation(items', LessonVocabulary')]_vars

\* A lesson was selected during a retry pass in which an item of another
\* lesson had been answered wrong: the pass over the lesson's two items
\* starts in retry mode and with that item in the wrong-item set.
C37_Witness ==
    /\ lastCall = "onLessonChange" /\ currentLesson = "1"
    /\ isRetryMode /\ wrongItems = <<3>>
    /\ Len(items) = 2 /\ currentIndex = 0 /\ Answered = 0


\* ------------------------------------------------- the dashboard's queries
\* Persisted sessions of earlier plays over StoredWords words with `c`
\* correct answers: finalized by endSession, or left in progress.
StoredWords == 2

CompletedRecord(p, g, c) ==
    [NoRecord EXCEPT
       !.exists = TRUE, !.playerId = p, !.gameId = g, !.status = "completed",
       !.startTime = 0, !.totalWords = StoredWords,
       !.correctCount = c, !.wrongCount = StoredWords - c, !.skippedCount = 0,
       !.wordsCompleted = StoredWords, !.score = calculateScore(c, StoredWords),
       !.endTime = 0, !.durationSeconds = 0]

InProgressRecord(p, g, c) ==
    [NoRecord EXCEPT
       !.exists = TRUE, !.playerId = p, !.gameId = g, !.status = "in_progress",
       !.startTime = 0, !.totalWords = StoredWords,
       !.correctCount = c, !.wrongCount = 0, !.skippedCount = 0]

StoredRecords ==
    {CompletedRecord(p, g, c) : p \in PlayerNames, g \in GameIds, c \in 0..StoredWords}
       \cup {InProgressRecord(p, g, c) :
                p \in PlayerNames, g \in GameIds, c \in 0..(StoredWords - 1)}

\* getPlayerSessions(limit): the records of the player, sorted by their
\* `timestamp`, latest first.  The timestamps are the clients' clock
\* readings, so the query can return the records in any order.
PlayerSessions(name) ==
    LET ids == {id \in 1..MaxSessions : sessions[id].exists /\ sessions[id].playerId = name}
    IN {[i \in 1..Cardinality(ids) |-> sessions[order[i]]] :
           order \in {o \in [1..Cardinality(ids) -> ids] :
                         \A i, j \in 1..Cardinality(ids) : o[i] = o[j] => i = j}}

getPlayerSessions(s) ==
    LET name == IF Truthy(playerId[s]) THEN playerId[s] ELSE storedName
    IN IF ~Truthy(name) \/ ~fbAvailable[s] THEN {<<>>} ELSE PlayerSessions(name)

\* a > b in JavaScript, false when either side is undefined
GreaterThan(a, b) == a # Absent /\ b # Absent /\ a > b

\* The loop of getBestScores() over the sessions, from bestScores = `best`.
RECURSIVE BestScoresOver(_, _)
BestScoresOver(list, best) ==
    IF list = <<>> THEN best
    ELSE LET session == Head(list)
             held == best[session.gameId]
         IN BestScoresOver(Tail(list),
               IF ~held.present \/ GreaterThan(session.score, held.score)
               THEN [best EXCEPT ![session.gameId] =
                        [present |-> TRUE, score |-> session.score,
                         correctCount |-> session.correctCount,
                         totalWords |-> session.wordsCompleted]]
               ELSE best)

\* getBestScores(), called by the dashboard; `ret` is the map it resolves to.
getBestScores(s) ==
    /\ mq = <<>>
    /\ lastCall = "new"
    /\ \E list \in getPlayerSessions(s) :
          ret' = BestScoresOver(list,
                    [g \in GameIds |->
                        [present |-> FALSE, score |-> Absent, correctCount |-> Absent,
                         totalWords |-> Absent]])
    /\ playerId' = IF ~Truthy(playerId[s]) /\ Truthy(storedName)
                   THEN [playerId EXCEPT ![s] = storedName] ELSE playerId
    /\ lastCall' = "getBestScores"
    /\ UNCHANGED <<engineVars, threw, answersThisItem, normalPass, gameEnd, callbacks,
                   statsVars, storedName, playerCalls, boardVars, storeVars, vocabVars>>

\* The dashboard of a known player over a store that holds the sessions of
\* earlier plays, of this player and of another.
InitBest ==
    /\ InitEngine
    /\ currentSession = [s \in Inst |-> NoSession]
    /\ startTime = [s \in Inst |-> Absent]
    /\ sessionId = [s \in Inst |-> Absent]
    /\ saveFrequency = [s \in Inst |-> DefaultSaveFrequency]
    /\ answersSinceLastSave = [s \in Inst |-> 0]
    /\ endReturn = [s \in Inst |-> NoReturn]
    /\ playerId = [s \in Inst |-> NULL]
    /\ playerCalls = <<>>
    /\ tiles = <<>> /\ currentTileIndex = Absent /\ quizModal = NULL
    /\ \E n \in 0..MaxSessions :
          /\ sessions \in {f \in [0..MaxSessions -> StoredRecords \cup {NoRecord}] :
                              \A id \in 0..MaxSessions : f[id].exists <=> id \in 1..n}
          /\ nextKey = n + 1
    /\ players = [p \in PlayerNames |-> NoPlayer]
    /\ net = [s \in Inst |-> <<>>]
    /\ mq = <<>>
    /\ now = 0
    /\ writeFailed = FALSE
    /\ cache = [path \in Paths |-> NoVocabulary]
    /\ lastSource = NULL
    /\ onStatusChange = FALSE
    /\ fetches = <<>>
    /\ remoteReads = 0
    /\ statusLog = <<>>
    /\ cleared = FALSE
    /\ lessonManager = [present |-> FALSE, all |-> <<>>]
    /\ storedName = "dana"
    /\ fbAvailable \in {[s \in Inst |-> b] : b \in BOOLEAN}
    /\ connectable = TRUE

NextBest == getBestScores(1)

SpecBest == InitBest /\ [][NextBest]_vars

\* The scores of the sessions of player `name` with game id g.
ScoresOf(name, g) ==
    {sessions[id].score :
        id \in {i \in 1..MaxSessions :
                   /\ sessions[i].exists /\ sessions[i].playerId = name
                   /\ sessions[i].gameId = g /\ sessions[i].score # Absent}}

\* C38: getBestScores returns, for every gameId among the current player's
\* persisted sessions, the maximum score over that player's sessions with
\* that gameId, whatever the sessions are (in-progress ones, which have no
\* score, included) and in whatever order their timestamps put them.
C38_BestScoreIsMaximum ==
    (lastCall = "getBestScores" /\ fbAvailable[1])
       => \A g \in GameIds :
             ScoresOf(playerId[1], g) # {}
                => /\ ret[g].present
                   /\ ret[g].score \in ScoresOf(playerId[1], g)
                   /\ \A x \in ScoresOf(playerId[1], g) : x <= ret[g].score

\* The player finished a game with every answer right and later left a
\* session of the same game in progress: no best score is reported for it.
C38_Witness ==
    /\ lastCall = "getBestScores" /\ fbAvailable[1] /\ playerId[1] = "dana"
    /\ sessions[1] = CompletedRecord("dana", EngineGameId, StoredWords)
    /\ sessions[2] = InProgressRecord("dana", EngineGameId, 0)
    /\ ret[EngineGameId].present /\ ret[EngineGameId].score = Absent


\* ---------------------------------------------------------- the board game
\* openQuiz(tileIndex): a click on an unanswered tile while the dialog is
\* closed opens the quiz of that tile.
openQuiz(tileIndex) ==
    /\ mq = <<>>
    /\ quizModal = "closed"
    /\ tileIndex \in 0..(Len(tiles) - 1)
    /\ tiles[tileIndex + 1] = "unanswered"
    /\ currentTileIndex' = tileIndex
    /\ quizModal' = "open"
    /\ UNCHANGED <<engineVars, observerVars, statsVars, playerVars, tiles, storeVars,
                   vocabVars>>

\* checkAnswer(selectedAnswer, button): a click on an option of the open
\* quiz disables the options, marks the tile, calls recordCorrect() or
\* recordWrong() and starts the timer that closes the dialog.
checkAnswer(right) ==
    LET marked == [tiles EXCEPT ![currentTileIndex + 1] =
                      IF right THEN "correct" ELSE "wrong"]
        call == IF right THEN "recordCorrect" ELSE "recordWrong"
    IN
    /\ mq = <<>>
    /\ quizModal = "open"
    /\ \/ /\ Rejected(call)
          /\ tiles' = marked
          /\ quizModal' = "answered"
          /\ UNCHANGED currentTileIndex
       \/ /\ ~hasAnswered
          /\ AcceptedFrame
          /\ SetWorld([recordAnswer(World, 1, IF right THEN "correct" ELSE "wrong")
                         EXCEPT !.tiles = marked, !.quizModal = "answered"])
          /\ IF right
             THEN /\ correctCount' = correctCount + 1
                  /\ ret' = TRUE
                  /\ threw' = FALSE
                  /\ UNCHANGED <<wrongCount, skippedCount, wrongItems>>
             ELSE /\ wrongCount' = wrongCount + 1
                  /\ TrackWrongItem
                  /\ UNCHANGED <<correctCount, skippedCount>>
          /\ lastCall' = call

\* The timer of checkAnswer, 1500 ms after the answer: closeQuiz(),
\* updateBoard(), updateScoreboard(), and a second timer of 500 ms when no
\* tile is left unanswered.
CloseQuizTimeout ==
    /\ mq = <<>>
    /\ quizModal = "answered"
    /\ quizModal' = IF \A i \in 1..Len(tiles) : tiles[i] # "unanswered"
                    THEN "complete" ELSE "closed"
    /\ UNCHANGED <<engineVars, observerVars, statsVars, playerVars, tiles,
                   currentTileIndex, storeVars, vocabVars>>

\* The second timer: game.showFinalScreen().
FinalScreenTimeout ==
    /\ mq = <<>>
    /\ quizModal = "complete"
    /\ EndRoom(1)
    /\ SetWorld([showFinalScreen(World, CurrentPass) EXCEPT !.quizModal = "closed"])
    /\ lastCall' = "showFinalScreen"
    /\ ret' = FALSE
    /\ threw' = FALSE
    /\ gameEnd' = NoGameEnd
    /\ callbacks' = NoCallbacks
    /\ UNCHANGED <<engineVars, answersThisItem, normalPass, saveFrequency, fbAvailable,
                   vocabVars, sessions, players, nextKey, net, now, writeFailed>>

\* The board page of a user who dismisses the name prompt.
InitBoard ==
    /\ InitEngine
    /\ currentSession = [s \in Inst |-> NoSession]
    /\ startTime = [s \in Inst |-> Absent]
    /\ sessionId = [s \in Inst |-> Absent]
    /\ saveFrequency = [s \in Inst |-> DefaultSaveFrequency]
    /\ answersSinceLastSave = [s \in Inst |-> 0]
    /\ endReturn = [s \in Inst |-> NoReturn]
    /\ playerId = [s \in Inst |-> NULL]
    /\ playerCalls = <<>>
    /\ tiles = <<>> /\ currentTileIndex = Absent /\ quizModal = "closed"
    /\ sessions = [id \in 0..MaxSessions |-> NoRecord]
    /\ players = [p \in PlayerNames |-> NoPlayer]
    /\ nextKey = 1
    /\ net = [s \in Inst |-> <<>>]
    /\ mq = <<>>
    /\ now = 0
    /\ writeFailed = FALSE
    /\ cache = [path \in Paths |-> NoVocabulary]
    /\ lastSource = NULL
    /\ onStatusChange = FALSE
    /\ fetches = <<>>
    /\ remoteReads = 0
    /\ statusLog = <<>>
    /\ cleared = FALSE
    /\ lessonManager = [present |-> FALSE, all |-> <<>>]
    /\ storedName = NULL
    /\ fbAvailable = [s \in Inst |-> TRUE]
    /\ connectable = TRUE

\* initGame() loads the vocabulary; the player opens tiles and answers;
\* the complete screen offers the restart.
NextBoard ==
    \/ \E load \in LoadResults : loadVocabulary(load, NoAnswer)
    \/ \E i \in 0..(MaxItems - 1) : openQuiz(i)
    \/ \E right \in BOOLEAN : checkAnswer(right)
    \/ CloseQuizTimeout
    \/ FinalScreenTimeout
    \/ ShowFinalScreenResume
    \/ gameEnd.fired /\ restartGame(NoAnswer)

SpecBoard == InitBoard /\ [][NextBoard]_vars

TilesWith(status) == Cardinality({i \in 1..Len(tiles) : tiles[i] = status})

\* C39: in the board game every answered tile is scored exactly once: after
\* k tiles have been answered correctCount + wrongCount = k, and the counts
\* onGameEnd reports when all tiles are answered are the numbers of tiles
\* answered correctly and wrongly.
C39_TileScoredOnce ==
    quizModal # NULL
       => /\ correctCount + wrongCount = Len(tiles) - TilesWith("unanswered")
          /\ (gameEnd.fired /\ TilesWith("unanswered") = 0)
                => /\ gameEnd.correctCount = TilesWith("correct")
                   /\ gameEnd.wrongCount = TilesWith("wrong")

\* Three tiles were answered correctly and the complete screen shows one
\* correct answer and 33%.
C39_Witness ==
    /\ tiles = <<"correct", "correct", "correct">>
    /\ gameEnd.fired /\ gameEnd.correctCount = 1 /\ gameEnd.wrongCount = 0
    /\ gameEnd.total = 3 /\ gameEnd.percentage = 33


\* ------------------------------------- passes with items left unanswered
\* A page with one GameEngine whose player is known: the vocabulary is
\* loaded once, items are answered or advanced past, and the pass ends.
NextAdvance ==
    \/ ~Loaded /\ setSaveFrequency(1, 1)
    \/ \E load \in LoadResults : loadVocabulary(load, NoAnswer)
    \/ nextItem
    \/ recordCorrect \/ recordWrong \/ recordSkipped
    \/ ShowFinalScreenResume
    \/ Deliver(1, TRUE)
    \/ Microtask

SpecAdvance == InitSession /\ [][NextAdvance]_vars

\* C40: the percentage onGameEnd receives for a finished pass is the score
\* endSession persisted for the session of that pass, whatever the answers
\* and advances of the pass were.
C40_PercentageIsScore ==
    (gameEnd.fired /\ endReturn[1].settled /\ endReturn[1].id # Absent)
       => /\ sessions[endReturn[1].id].exists
          /\ sessions[endReturn[1].id].status = "completed"
          /\ sessions[endReturn[1].id].score = gameEnd.percentage

\* One of three items was answered, correctly, and the other two were
\* advanced past: onGameEnd receives 33% and the session holds score 100.
C40_Witness ==
    /\ gameEnd.fired /\ gameEnd.total = 3 /\ gameEnd.correctCount = 1
    /\ gameEnd.wrongCount = 0 /\ gameEnd.skippedCount = 0
    /\ gameEnd.percentage = 33
    /\ endReturn[1] = Returned(1)
    /\ sessions[1].status = "completed" /\ sessions[1].wordsCompleted = 1
    /\ sessions[1].score = 100

====
